---- MODULE Spec2Model ----
(***************************************************************************)
(* Bundle clients of the Pump Swap bot.                                    *)
(*                                                                         *)
(* Two classes named JitoBundleClient exist in the repository:             *)
(*   - server/jito-bundle.ts  (submitBundle, getBundleStatus,              *)
(*     submitBundleWithRetry, validateTransactions), called the server     *)
(*     client below;                                                       *)
(*   - simple-bot.ts 752-930  (submitBundle, getBundleStatus,              *)
(*     waitForBundleConfirmation), called the bot client below.            *)
(*                                                                         *)
(* One behaviour of the model is one call of one method of one client:     *)
(* the call action draws the method's arguments, and every later action    *)
(* runs the method from one suspension point (an await) to the next.  The  *)
(* relay is the environment: each answer to a request is drawn when the    *)
(* request settles.                                                        *)
(*                                                                         *)
(* Two classes named PumpFunClient exist as well, in                       *)
(* ts-jito-cleint/pumpfun-client.ts and in unnamed/part_002; they differ   *)
(* in the metadata fields validateTokenMetadata reads and in the steps of  *)
(* createToken, and the variable client says which one is called.          *)
(*                                                                         *)
(* Specifications: Spec and WaitSpec (one call of a bundle client),        *)
(* StatusSpec (one bundle submitted, then polled), PumpSpec (one call of   *)
(* validateTokenMetadata or createToken), QuoteSpec (the bonding-curve     *)
(* quote functions and sellTokens), TradeSpec (one call of createToken,    *)
(* buyTokens or sellTokens), ConcSpec (two interleaved calls of the server *)
(* client), BotSpec (the menus and text flows of simple-bot), ApiSpec (one *)
(* request to the buy or sell endpoint), UsersSpec (calls of UserManager), *)
(* ChatSpec (the wallet-name and token-name prompts of the bot, with two   *)
(* text updates handled at once), WalletSpec (WalletManager keys).         *)
(***************************************************************************)
EXTENDS Integers, Sequences, FiniteSets, TLC

VARIABLES
    op,          \* the method called, "" before the call
    pc,          \* idle | await_post | backoff | await_get | sleep | done
    txs,         \* submitBundle / submitBundleWithRetry: the batch given
    maxRetries,  \* submitBundleWithRetry: its maxRetries argument
    retries,     \* submitBundleWithRetry: local retries
    lastError,   \* submitBundleWithRetry: local lastError
    attempts,    \* number of submitBundle calls made so far
    requests,    \* outbound HTTP requests issued so far, in order
    responses,   \* what the relay answered to them, in order
    delays,      \* setTimeout delays started so far (ms), in order
    result,      \* how the call ended: returned value or thrown Error
    bundleId,    \* getBundleStatus / waitForBundleConfirmation: the id given
    maxWaitTime, \* waitForBundleConfirmation: its maxWaitTime argument (ms)
    now,         \* Date.now() (ms since the call)
    startTime,   \* waitForBundleConfirmation: local startTime
    polls,       \* statuses getBundleStatus reported to the polling loop
    tip,         \* bot client submitBundle: tipAccount and tipAmount given
    lastPoll,    \* waitForBundleConfirmation: timing of the last loop pass
    relayStatus, \* the relay's own status of the bundle being tracked
    reported,    \* statuses the bot client reported for that bundle, in order
    client,      \* which PumpFunClient class is called
    metadata,    \* createToken / validateTokenMetadata: the metadata given
    validation,  \* what validateTokenMetadata returned
    rpc,         \* calls made on the connection so far, in order
    balance,     \* createToken: local balance
    txResult,    \* how the PumpFunClient call ended
    curve,       \* the BondingCurveData a quote function is given
    request,     \* sellTokens: the SellRequest given
    quotes,      \* calls of the quote functions made on curve, in order
    calls,       \* two calls of the server client in flight: their locals
    wire,        \* the requests those calls sent, in order, with the caller
    botSession,  \* simple-bot: userSessions entry of the user
    texts,       \* text messages handled since create_token, in order
    tokenFlow,   \* whether create_token was the last action of the user
    deployed,    \* metadata deploy_token sent to the API
    apiReq,      \* ApiServer: the body of the request being handled
    apiPc,       \* ApiServer: idle | await_client | done
    apiRes,      \* ApiServer: the response written
    clientCalls, \* PumpFunClient methods the endpoint invoked, in order
    users,       \* UserManager.users: the User record of each Telegram id
    sessions,    \* UserManager.sessions: the UserSession of each id
    clock,       \* what new Date() returns
    umCall,      \* the UserManager method called last, with its arguments
    seen,        \* the ids getOrCreateUser was called with
    handlers,    \* bot: the updates being handled, each with its locals
    prompts,     \* the prompts the user was given (wallet | token), in order
    apiCalls,    \* token-creation API calls made, in order
    wmCrypto,    \* WalletManager: whether scryptSync accepts the encryption key
    wmWallet,    \* the wallet importWallet or createWallet returned
    wmKeypair,   \* what getKeypairFromWallet gave for that wallet
    wmTrip       \* a key string and what decrypting its encryption gave

vars == <<op, pc, txs, maxRetries, retries, lastError, attempts, requests,
          responses, delays, result, bundleId, maxWaitTime, now, startTime,
          polls, tip, lastPoll, relayStatus, reported, client, metadata,
          validation, rpc, balance, txResult, curve, request, quotes,
          calls, wire,
          botSession, texts, tokenFlow, deployed,
          apiReq, apiPc, apiRes, clientCalls,
          users, sessions, clock, umCall, seen,
          handlers, prompts, apiCalls,
          wmCrypto, wmWallet, wmKeypair, wmTrip>>

\* the locals and histories of a bundle client call
bundleVars == <<txs, maxRetries, retries, lastError, attempts, requests,
                responses, delays, result, bundleId, maxWaitTime, now,
                startTime, polls, tip, lastPoll>>
trackVars == <<relayStatus, reported>>
createVars == <<client, metadata, validation, rpc, balance, txResult>>
quoteVars == <<curve, request, quotes>>
pumpVars == <<createVars, quoteVars>>

\* what the methods of the bundle clients leave alone
concVars == <<calls, wire>>
uiVars == <<botSession, texts, tokenFlow, deployed>>
apiVars == <<apiReq, apiPc, apiRes, clientCalls>>
umVars == <<users, sessions, clock, umCall, seen>>
chatVars == <<handlers, prompts, apiCalls>>
walletVars == <<wmCrypto, wmWallet, wmKeypair, wmTrip>>
appVars == <<concVars, uiVars, apiVars, umVars, chatVars, walletVars>>
otherVars == <<trackVars, pumpVars, appVars>>

\* everything one call of a bundle client or of a PumpFunClient touches
coreVars == <<op, pc, bundleVars, trackVars, pumpVars>>

\* what the steps of each further component leave alone
concFrame == <<coreVars, uiVars, apiVars, umVars, chatVars, walletVars>>
uiFrame == <<coreVars, concVars, apiVars, umVars, chatVars, walletVars>>
apiFrame == <<coreVars, concVars, uiVars, umVars, chatVars, walletVars>>
umFrame == <<coreVars, concVars, uiVars, apiVars, chatVars, walletVars>>
\* the prompt handlers call the UserManager
chatFrame == <<coreVars, concVars, uiVars, apiVars, walletVars>>
walletFrame == <<coreVars, concVars, uiVars, apiVars, umVars, chatVars>>

----------------------------------------------------------------------------
(* Bounds of the model *)

MaxBatchLen == 17
MaxRetriesBound == 4
MaxWaitSeconds == 5
MaxLatencySeconds == 2
MaxTxObjects == 2
MaxPolls == 3
MaxReserve == 3
MaxTrade == 4
MaxConcRetries == 2
MaxTexts == 4
MaxBotWallets == 1
MaxAmounts == 17
MaxClock == 4
MaxPrompts == 2
MaxKeys == 3
MaxIvs == 2

(* Program constants *)

MaxTransactionsOffByOne == 16 + 1

\* transactions.length > 16
MaxTransactions == 16
TipAmountLamports == 10000
BackoffBase == 2
MsPerSecond == 1000
PollInterval == 2000

TipAccount == "CebN5WGQ4jvEPvsVU4EoHEpgzq1VV7AbicfhtW4xC9iM"

----------------------------------------------------------------------------
(* Values *)

\* A message is the sequence of the parts a template string is built from.
Undefined == <<"undefined">>
NoError == <<>>

\* A transaction blob is a string, kept as its characters.
GoodBlob == <<"A", "Q", "I", "D">>
BadBlob == <<"%", "%">>
Blobs == {GoodBlob, BadBlob}

Base64Alphabet ==
    {"A", "B", "C", "D", "I", "Q", "a", "b", "0", "1", "+", "/"}

\* Buffer.from(tx, "base64"): characters outside the alphabet are skipped and
\* every 4 remaining characters give 3 bytes; it never throws.
BufferFromBase64(tx) ==
    (Len(SelectSeq(tx, LAMBDA c : c \in Base64Alphabet)) * 3) \div 4

BufferFromThrows(tx) == BufferFromBase64(tx) < 0

Uniform(n, b) == [i \in 1..n |-> b]

Batches ==
    {<<>>}
    \cup {<<a>> : a \in Blobs}
    \cup {<<a, b>> : a \in Blobs, b \in Blobs}
    \cup {Uniform(n, GoodBlob) : n \in 3..MaxBatchLen}

RetryBudgets == 0..MaxRetriesBound

\* What the relay can answer to a request.  "" stands for an absent field
\* (absent and "" are both falsy for ||).
Ok(id, st) ==
    [kind |-> "ok", bundle_id |-> id, status |-> st,
     dataMessage |-> "", dataError |-> "", message |-> ""]
NetErr ==
    [kind |-> "neterr", bundle_id |-> "", status |-> "",
     dataMessage |-> "", dataError |-> "",
     message |-> "timeout of 30000ms exceeded"]
HttpErr ==
    [kind |-> "httperr", bundle_id |-> "", status |-> "",
     dataMessage |-> "bundle rejected", dataError |-> "bad request",
     message |-> "Request failed with status code 400"]

RelayId == "b7"
PostResponses ==
    {NetErr, HttpErr, Ok(RelayId, "pending"), Ok(RelayId, "success"),
     Ok(RelayId, "failed")}

RelayStatuses == {"pending", "accepted", "rejected", "failed", "landed"}
GetResponses == {NetErr, HttpErr} \cup {Ok(RelayId, st) : st \in RelayStatuses}

BundleIds == {"b1", "b2"}

\* A Transaction object of the bot client: whether serialize() accepts it and
\* the base64 text of its bytes.
TxObjects ==
    {[signed |-> TRUE, b64 |-> GoodBlob], [signed |-> FALSE, b64 |-> GoodBlob]}
TxBatches ==
    UNION {[1..n -> TxObjects] : n \in 0..MaxTxObjects}
Tips == {[account |-> TipAccount, amount |-> TipAmountLamports]}

WaitTimes == {k * MsPerSecond : k \in 0..MaxWaitSeconds}
Latencies == {k * MsPerSecond : k \in 0..MaxLatencySeconds}

NoResult ==
    [kind |-> "none", bundleId |-> "", status |-> "", transactions |-> <<>>,
     error |-> NoError]
Thrown(msg) ==
    [kind |-> "thrown", bundleId |-> "", status |-> "", transactions |-> <<>>,
     error |-> msg]
Returned(id, st, t, err) ==
    [kind |-> "returned", bundleId |-> id, status |-> st, transactions |-> t,
     error |-> err]

----------------------------------------------------------------------------
(* Server client: server/jito-bundle.ts *)

validateTransactions(t) ==
    IF Len(t) = 0 THEN <<"No transactions provided">>
    ELSE IF Len(t) > MaxTransactions
    THEN <<"Maximum 16 transactions allowed per bundle">>
    ELSE IF \E i \in 1..Len(t) : BufferFromThrows(t[i])
    THEN LET first == CHOOSE i \in 1..Len(t) :
                          /\ BufferFromThrows(t[i])
                          /\ \A j \in 1..(i - 1) : ~BufferFromThrows(t[j])
         IN <<"Invalid base64 transaction at index ", ToString(first - 1)>>
    ELSE NoError

\* submitBundle up to its request: the Error its checks throw, or NoError.
SubmitPrecheck(t) ==
    IF Len(t) = 0 THEN <<"No transactions to bundle">>
    ELSE IF Len(t) > MaxTransactions
    THEN <<"Maximum 16 transactions allowed per bundle">>
    ELSE validateTransactions(t)

SubmitRequest(t) ==
    [method |-> "POST", id |-> "", transactions |-> t,
     tip_account |-> TipAccount, tip_amount |-> TipAmountLamports]

\* error.response?.data?.message || error.message
ServerErrorMessage(r) ==
    IF r.dataMessage # "" THEN r.dataMessage ELSE r.message

SubmitFailure(r) == <<"Bundle submission failed: ", ServerErrorMessage(r)>>

SubmitBundle(t) ==
    /\ pc = "idle"
    /\ op' = "submitBundle"
    /\ txs' = t
    /\ attempts' = 1
    /\ IF SubmitPrecheck(t) # NoError
       THEN /\ pc' = "done"
            /\ result' = Thrown(SubmitPrecheck(t))
            /\ UNCHANGED requests
       ELSE /\ pc' = "await_post"
            /\ requests' = Append(requests, SubmitRequest(t))
            /\ UNCHANGED result
    /\ UNCHANGED <<lastPoll, otherVars>>
    /\ UNCHANGED <<maxRetries, retries, lastError, responses, delays,
                   bundleId, maxWaitTime, now, startTime, polls, tip>>

SubmitBundleCall == \E t \in Batches : SubmitBundle(t)

SubmitBundleSettle ==
    /\ pc = "await_post"
    /\ op = "submitBundle"
    /\ \E r \in PostResponses :
        /\ responses' = Append(responses, r)
        /\ result' = IF r.kind = "ok"
                     THEN Returned(r.bundle_id, r.status, <<>>, NoError)
                     ELSE Thrown(SubmitFailure(r))
    /\ pc' = "done"
    /\ UNCHANGED <<lastPoll, otherVars>>
    /\ UNCHANGED <<op, txs, maxRetries, retries, lastError, attempts,
                   requests, delays, bundleId, maxWaitTime, now, startTime,
                   polls, tip>>

RetryKeepFirstError(old, new) == IF old = Undefined THEN new ELSE old

\* lastError = response.status / lastError = error.message
RetryRecordError(old, new) == new

BackoffDelayFromZero(n) == (BackoffBase ^ (n - 1)) * MsPerSecond

\* Math.pow(2, retries) * 1000
BackoffDelay(n) == (BackoffBase ^ n) * MsPerSecond

RetryExhausted(m, err) ==
    <<"Bundle submission failed after ", ToString(m),
      " retries. Last error: ">> \o err

\* A failed attempt with retries = r: record the error, count it, then start
\* the backoff timer or leave the loop and throw.
RetryFailed(r, m, err) ==
    /\ lastError' = RetryRecordError(lastError, err)
    /\ retries' = r + 1
    /\ IF r + 1 < m
       THEN /\ pc' = "backoff"
            /\ delays' = Append(delays, BackoffDelay(r + 1))
            /\ UNCHANGED result
       ELSE /\ pc' = "done"
            /\ result' = Thrown(RetryExhausted(m, lastError'))
            /\ UNCHANGED delays

\* From the while test to the next suspension point.
RetryIteration(r, m, t) ==
    IF r < m
    THEN /\ attempts' = attempts + 1
         /\ IF SubmitPrecheck(t) # NoError
            THEN /\ RetryFailed(r, m, SubmitPrecheck(t))
                 /\ UNCHANGED requests
            ELSE /\ pc' = "await_post"
                 /\ requests' = Append(requests, SubmitRequest(t))
                 /\ UNCHANGED <<retries, lastError, delays, result>>
    ELSE /\ pc' = "done"
         /\ result' = Thrown(RetryExhausted(m, lastError))
         /\ UNCHANGED <<attempts, requests, retries, lastError, delays>>

SubmitBundleWithRetry(t, m) ==
    /\ pc = "idle"
    /\ op' = "submitBundleWithRetry"
    /\ txs' = t
    /\ maxRetries' = m
    /\ RetryIteration(0, m, t)
    /\ UNCHANGED <<lastPoll, otherVars>>
    /\ UNCHANGED <<responses, bundleId, maxWaitTime, now, startTime, polls,
                   tip>>

SubmitBundleWithRetryCall ==
    \E t \in Batches : \E m \in RetryBudgets : SubmitBundleWithRetry(t, m)

RetrySettle ==
    /\ pc = "await_post"
    /\ op = "submitBundleWithRetry"
    /\ \E r \in PostResponses :
        /\ responses' = Append(responses, r)
        /\ IF r.kind = "ok"
           THEN IF r.status = "success"
                THEN /\ pc' = "done"
                     /\ result' = Returned(r.bundle_id, r.status, <<>>,
                                           NoError)
                     /\ UNCHANGED <<retries, lastError, delays>>
                ELSE RetryFailed(retries, maxRetries, <<r.status>>)
           ELSE RetryFailed(retries, maxRetries, SubmitFailure(r))
    /\ UNCHANGED <<lastPoll, otherVars>>
    /\ UNCHANGED <<op, txs, maxRetries, attempts, requests, bundleId,
                   maxWaitTime, now, startTime, polls, tip>>

BackoffElapsed ==
    /\ pc = "backoff"
    /\ RetryIteration(retries, maxRetries, txs)
    /\ UNCHANGED <<lastPoll, otherVars>>
    /\ UNCHANGED <<op, txs, maxRetries, responses, bundleId, maxWaitTime,
                   now, startTime, polls, tip>>

GetRequest(id) ==
    [method |-> "GET", id |-> id, transactions |-> <<>>,
     tip_account |-> "", tip_amount |-> 0]

StatusFailure(r) == <<"Failed to get bundle status: ", ServerErrorMessage(r)>>

GetBundleStatus(id) ==
    /\ pc = "idle"
    /\ op' = "getBundleStatus"
    /\ bundleId' = id
    /\ requests' = Append(requests, GetRequest(id))
    /\ pc' = "await_get"
    /\ UNCHANGED <<lastPoll, otherVars>>
    /\ UNCHANGED <<txs, maxRetries, retries, lastError, attempts, responses,
                   delays, result, maxWaitTime, now, startTime, polls, tip>>

GetBundleStatusCall == \E id \in BundleIds : GetBundleStatus(id)

GetBundleStatusSettle ==
    /\ pc = "await_get"
    /\ op = "getBundleStatus"
    /\ \E r \in GetResponses :
        /\ responses' = Append(responses, r)
        /\ result' = IF r.kind = "ok"
                     THEN Returned(r.bundle_id, r.status, <<>>, NoError)
                     ELSE Thrown(StatusFailure(r))
    /\ pc' = "done"
    /\ UNCHANGED <<lastPoll, otherVars>>
    /\ UNCHANGED <<op, txs, maxRetries, retries, lastError, attempts,
                   requests, delays, bundleId, maxWaitTime, now, startTime,
                   polls, tip>>

----------------------------------------------------------------------------
(* Bot client: simple-bot.ts 752-930 *)

\* error.response?.data?.error || error.message
BotErrorMessage(r) ==
    IF r.dataError # "" THEN r.dataError ELSE r.message

\* tx.serialize().toString('base64'); serialize() throws on a transaction
\* that lacks a signature.
SerializeThrows(ts) == \E i \in 1..Len(ts) : ~ts[i].signed
Serialized(ts) == [i \in 1..Len(ts) |-> ts[i].b64]

BotSubmitRequest(ts, t) ==
    [method |-> "POST", id |-> "", transactions |-> Serialized(ts),
     tip_account |-> t.account, tip_amount |-> t.amount]

BotSubmitFailedLosesError(msg) == Returned("", "failed", <<>>, NoError)

\* the catch branch of submitBundle
BotSubmitFailed(msg) == Returned("", "failed", <<>>, <<msg>>)

BotSubmitBundle(ts, t) ==
    /\ pc = "idle"
    /\ op' = "bot.submitBundle"
    /\ txs' = ts
    /\ tip' = t
    /\ attempts' = 1
    /\ IF SerializeThrows(ts)
       THEN /\ pc' = "done"
            /\ result' = BotSubmitFailed("Signature verification failed")
            /\ UNCHANGED requests
       ELSE /\ pc' = "await_post"
            /\ requests' = Append(requests, BotSubmitRequest(ts, t))
            /\ UNCHANGED result
    /\ UNCHANGED <<lastPoll, otherVars>>
    /\ UNCHANGED <<maxRetries, retries, lastError, responses, delays,
                   bundleId, maxWaitTime, now, startTime, polls>>

BotSubmitBundleCall ==
    \E ts \in TxBatches : \E t \in Tips : BotSubmitBundle(ts, t)

BotSubmitBundleSettle ==
    /\ pc = "await_post"
    /\ op = "bot.submitBundle"
    /\ \E r \in PostResponses :
        /\ responses' = Append(responses, r)
        /\ result' = IF r.kind = "ok"
                     THEN Returned(r.bundle_id, "pending", Serialized(txs),
                                   NoError)
                     ELSE BotSubmitFailed(BotErrorMessage(r))
    /\ pc' = "done"
    /\ UNCHANGED <<lastPoll, otherVars>>
    /\ UNCHANGED <<op, txs, maxRetries, retries, lastError, attempts,
                   requests, delays, bundleId, maxWaitTime, now, startTime,
                   polls, tip>>

BotStatusThrows(id, r) ==
    IF r.kind = "ok"
    THEN Returned(id, r.status, <<>>,
                  IF r.dataError = "" THEN NoError ELSE <<r.dataError>>)
    ELSE Thrown(<<BotErrorMessage(r)>>)

\* What getBundleStatus resolves to when the relay answers r.
BotStatusResult(id, r) ==
    IF r.kind = "ok"
    THEN Returned(id, r.status, <<>>,
                  IF r.dataError = "" THEN NoError ELSE <<r.dataError>>)
    ELSE Returned(id, "failed", <<>>, <<BotErrorMessage(r)>>)

BotGetBundleStatus(id) ==
    /\ pc = "idle"
    /\ op' = "bot.getBundleStatus"
    /\ bundleId' = id
    /\ requests' = Append(requests, GetRequest(id))
    /\ pc' = "await_get"
    /\ UNCHANGED <<lastPoll, otherVars>>
    /\ UNCHANGED <<txs, maxRetries, retries, lastError, attempts, responses,
                   delays, result, maxWaitTime, now, startTime, polls, tip>>

BotGetBundleStatusCall == \E id \in BundleIds : BotGetBundleStatus(id)

BotGetBundleStatusSettle ==
    /\ pc = "await_get"
    /\ op = "bot.getBundleStatus"
    /\ \E r \in GetResponses :
        /\ responses' = Append(responses, r)
        /\ result' = BotStatusResult(bundleId, r)
    /\ pc' = "done"
    /\ UNCHANGED <<lastPoll, otherVars>>
    /\ UNCHANGED <<op, txs, maxRetries, retries, lastError, attempts,
                   requests, delays, bundleId, maxWaitTime, now, startTime,
                   polls, tip>>

IsTerminalNoRejected(st) == st = "accepted" \/ st = "failed"

\* status === 'accepted' || status === 'rejected' || status === 'failed'
IsTerminal(st) == st = "accepted" \/ st = "rejected" \/ st = "failed"

WaitTimeoutPending(id) ==
    Returned(id, "pending", <<>>, <<"Bundle confirmation timeout">>)

WaitTimeout(id) ==
    Returned(id, "failed", <<>>, <<"Bundle confirmation timeout">>)

WaitExpiredEarly(t, start, mw) == ~(t - start < mw - PollInterval)

\* the negation of the while test Date.now() - startTime < maxWaitTime
WaitExpired(t, start, mw) == ~(t - start < mw)

\* A pass of the loop body entered at time t: its getBundleStatus call took
\* took ms and its timer fired late ms after the 2000 ms asked for.
LoopPass(t) == [at |-> t, took |-> 0, late |-> 0]

\* From the while test, read at time t, to the next suspension point.
WaitIteration(t, start, mw, id) ==
    IF WaitExpired(t, start, mw)
    THEN /\ pc' = "done"
         /\ result' = WaitTimeout(id)
         /\ UNCHANGED requests
    ELSE /\ pc' = "await_get"
         /\ requests' = Append(requests, GetRequest(id))
         /\ UNCHANGED result

WaitForBundleConfirmation(id, mw) ==
    /\ pc = "idle"
    /\ op' = "bot.waitForBundleConfirmation"
    /\ bundleId' = id
    /\ maxWaitTime' = mw
    /\ startTime' = now
    /\ WaitIteration(now, now, mw, id)
    /\ lastPoll' = LoopPass(now)
    /\ UNCHANGED otherVars
    /\ UNCHANGED <<txs, maxRetries, retries, lastError, attempts, responses,
                   delays, now, polls, tip>>

WaitForBundleConfirmationCall ==
    \E id \in BundleIds : \E mw \in WaitTimes :
        WaitForBundleConfirmation(id, mw)

\* getBundleStatus settles after lat ms; the loop returns or starts its timer.
WaitSettle ==
    /\ pc = "await_get"
    /\ op = "bot.waitForBundleConfirmation"
    /\ \E r \in GetResponses : \E lat \in Latencies :
        /\ responses' = Append(responses, r)
        /\ now' = now + lat
        /\ lastPoll' = [lastPoll EXCEPT !.took = lat]
        /\ polls' = Append(polls, BotStatusResult(bundleId, r).status)
        /\ IF IsTerminal(BotStatusResult(bundleId, r).status)
           THEN /\ pc' = "done"
                /\ result' = BotStatusResult(bundleId, r)
                /\ UNCHANGED delays
           ELSE /\ pc' = "sleep"
                /\ delays' = Append(delays, PollInterval)
                /\ UNCHANGED result
    /\ UNCHANGED otherVars
    /\ UNCHANGED <<op, txs, maxRetries, retries, lastError, attempts,
                   requests, bundleId, maxWaitTime, startTime, tip>>

\* The timer fires, the delay started and late ms after it was set.
WaitTimerFired ==
    /\ pc = "sleep"
    /\ op = "bot.waitForBundleConfirmation"
    /\ \E late \in Latencies :
        /\ now' = now + delays[Len(delays)] + late
        /\ WaitIteration(now', startTime, maxWaitTime, bundleId)
        /\ lastPoll' = IF WaitExpired(now', startTime, maxWaitTime)
                       THEN [lastPoll EXCEPT !.late = late]
                       ELSE LoopPass(now')
    /\ UNCHANGED otherVars
    /\ UNCHANGED <<op, txs, maxRetries, retries, lastError, attempts,
                   responses, delays, bundleId, maxWaitTime, startTime,
                   polls, tip>>

----------------------------------------------------------------------------
(* One bundle followed through the bot client: it is submitted once and its
   status is then asked for again and again.  The relay keeps the bundle
   pending until it decides it, once. *)

BundleStatuses == {"pending", "accepted", "rejected", "failed"}

\* The caller receives the Bundle submitBundle returned.
TrackSubmitted ==
    /\ pc = "done"
    /\ op = "bot.submitBundle"
    /\ reported = <<>>
    /\ reported' = <<result.status>>
    /\ relayStatus' = IF result.status = "pending" THEN "pending" ELSE "none"
    /\ UNCHANGED <<pumpVars, appVars>>
    /\ UNCHANGED <<op, pc, txs, maxRetries, retries, lastError, attempts,
                   requests, responses, delays, result, bundleId, maxWaitTime,
                   now, startTime, polls, tip, lastPoll>>

\* A whole call of getBundleStatus for the submitted bundle.
TrackPoll ==
    /\ pc = "done"
    /\ relayStatus \in BundleStatuses
    /\ Len(reported) <= MaxPolls
    /\ \E r \in {NetErr, HttpErr, Ok(result.bundleId, relayStatus)} :
        /\ op' = "bot.getBundleStatus"
        /\ bundleId' = result.bundleId
        /\ requests' = Append(requests, GetRequest(result.bundleId))
        /\ responses' = Append(responses, r)
        /\ result' = BotStatusResult(result.bundleId, r)
        /\ reported' =
               Append(reported, BotStatusResult(result.bundleId, r).status)
    /\ UNCHANGED <<pumpVars, appVars>>
    /\ UNCHANGED <<pc, txs, maxRetries, retries, lastError, attempts, delays,
                   maxWaitTime, now, startTime, polls, tip, lastPoll,
                   relayStatus>>

\* The relay lands or drops the bundle.
RelayDecides ==
    /\ relayStatus = "pending"
    /\ relayStatus' \in BundleStatuses \ {"pending"}
    /\ UNCHANGED <<pumpVars, appVars>>
    /\ UNCHANGED <<op, pc, txs, maxRetries, retries, lastError, attempts,
                   requests, responses, delays, result, bundleId, maxWaitTime,
                   now, startTime, polls, tip, lastPoll, reported>>

----------------------------------------------------------------------------
(* PumpFunClient: ts-jito-cleint/pumpfun-client.ts, and the second class of
   that name in unnamed/part_002.  A string field of TokenMetadata is kept
   as its characters; Undefined stands for a field that is not given. *)

Clients == {"pumpfun-client", "part_002"}

MaxNameLength == 32
MaxSymbolLength == 8
MaxDescriptionLength == 200

AsciiAlpha ==
    {"a", "b", "c", "d", "e", "f", "g", "h", "i", "j", "k", "l", "m", "n",
     "o", "p", "q", "r", "s", "t", "u", "v", "w", "x", "y", "z",
     "A", "B", "C", "D", "E", "F", "G", "H", "I", "J", "K", "L", "M", "N",
     "O", "P", "Q", "R", "S", "T", "U", "V", "W", "X", "Y", "Z"}
AsciiDigit == {"0", "1", "2", "3", "4", "5", "6", "7", "8", "9"}
SchemeChars == AsciiAlpha \cup AsciiDigit \cup {"+", "-", "."}

\* the schemes whose URL must name a host
SpecialSchemes ==
    {<<"h", "t", "t", "p">>, <<"h", "t", "t", "p", "s">>, <<"f", "t", "p">>,
     <<"w", "s">>, <<"w", "s", "s">>}

\* String(v): what new URL(v) parses; undefined reads "undefined"
UrlInput(v) ==
    IF v = Undefined
    THEN <<"u", "n", "d", "e", "f", "i", "n", "e", "d">>
    ELSE v

\* The characters of s from position a on, leading slashes dropped.
RECURSIVE AfterSlashes(_, _)
AfterSlashes(s, a) ==
    IF a > Len(s) THEN <<>>
    ELSE IF s[a] = "/" \/ s[a] = "\\" THEN AfterSlashes(s, a + 1)
    ELSE SubSeq(s, a, Len(s))

\* new URL(v) without a base: a scheme (a letter, then letters, digits,
\* + - .) ended by ":" is required, and a special scheme requires a host.
UrlParses(v) ==
    LET s == UrlInput(v)
        colons == {i \in 1..Len(s) : s[i] = ":"}
    IN  /\ colons # {}
        /\ LET c == CHOOSE i \in colons : \A j \in colons : i <= j
           IN  /\ c > 1
               /\ s[1] \in AsciiAlpha
               /\ \A i \in 2..(c - 1) : s[i] \in SchemeChars
               /\ SubSeq(s, 1, c - 1) \in SpecialSchemes
                     => /\ AfterSlashes(s, c + 1) # <<>>
                        /\ AfterSlashes(s, c + 1)[1] \notin {":", "?", "#", " "}

\* !s for a string field: undefined and "" are falsy
Falsy(s) == s = Undefined \/ s = <<>>

NameViolatedNoLimit(md) == Falsy(md.name)

\* the tests of validateTokenMetadata, one per rule
NameViolated(md) == Falsy(md.name) \/ Len(md.name) > MaxNameLength
SymbolViolated(md) == Falsy(md.symbol) \/ Len(md.symbol) > MaxSymbolLength
DescriptionViolated(md) ==
    Falsy(md.description) \/ Len(md.description) > MaxDescriptionLength

\* which fields each class reads for the image and the two links
ImageField(c, md) == IF c = "part_002" THEN md.image_url ELSE md.imageUrl
TelegramField(c, md) ==
    IF c = "part_002" THEN md.telegram_link ELSE md.telegramLink
TwitterField(c, md) ==
    IF c = "part_002" THEN md.twitter_link ELSE md.twitterLink

TwitterNeverViolated(c, md) == FALSE

ImageViolated(c, md) == ~UrlParses(ImageField(c, md))
TelegramViolated(c, md) == Falsy(TelegramField(c, md))
TwitterViolated(c, md) == Falsy(TwitterField(c, md))

Push(cond, msg) == IF cond THEN <<msg>> ELSE <<>>

validateTokenMetadata(c, md) ==
    [isValid |->
        ~(\/ NameViolated(md)
          \/ SymbolViolated(md)
          \/ DescriptionViolated(md)
          \/ ImageViolated(c, md)
          \/ TelegramViolated(c, md)
          \/ TwitterViolated(c, md)),
     errors |->
        Push(NameViolated(md), "Token name must be 1-32 characters")
        \o Push(SymbolViolated(md), "Token symbol must be 1-8 characters")
        \o Push(DescriptionViolated(md),
                "Description must be 1-200 characters")
        \o Push(ImageViolated(c, md), "Invalid image URL")
        \o Push(TelegramViolated(c, md), "Telegram link is required")
        \o Push(TwitterViolated(c, md), "Twitter link is required"),
     warnings |-> <<>>]

NoValidation == [isValid |-> TRUE, errors |-> <<>>, warnings |-> <<>>]

(* TokenMetadata values *)

NotAUrl == <<"n", "o", "t", "-", "a", "-", "u", "r", "l">>
HttpsUrl == <<"h", "t", "t", "p", "s", ":", "/", "/", "x", ".", "i", "o">>
HttpNoHost == <<"h", "t", "t", "p", ":", "/", "/">>
IpfsUri == <<"i", "p", "f", "s", ":", "/", "/", "Q", "m">>
TooLongSymbol ==
    <<"T", "O", "O", "L", "O", "N", "G", "S", "Y", "M", "B", "O", "L">>
OkText == <<"o", "k">>
Link == <<"t", ".", "m", "e", "/", "x">>

Names ==
    {Undefined, <<>>, Uniform(1, "n"), Uniform(MaxNameLength, "n"),
     Uniform(MaxNameLength + 1, "n")}
Symbols ==
    {Undefined, <<>>, Uniform(MaxSymbolLength, "S"),
     Uniform(MaxSymbolLength + 1, "S"), TooLongSymbol}
Descriptions ==
    {Undefined, <<>>, OkText, Uniform(MaxDescriptionLength, "d"),
     Uniform(MaxDescriptionLength + 1, "d")}
ImageUrls == {Undefined, <<>>, NotAUrl, HttpsUrl, HttpNoHost, IpfsUri}
Links == {Undefined, <<>>, Link}

\* The fields with underscores are given all together or not at all.
Metadatas ==
    {[name |-> n, symbol |-> s, description |-> d, imageUrl |-> u,
      telegramLink |-> tg, twitterLink |-> tw,
      image_url |-> IF snake THEN HttpsUrl ELSE Undefined,
      telegram_link |-> IF snake THEN Link ELSE Undefined,
      twitter_link |-> IF snake THEN Link ELSE Undefined] :
        n \in Names, s \in Symbols, d \in Descriptions, u \in ImageUrls,
        tg \in Links, tw \in Links, snake \in BOOLEAN}

NoMetadata ==
    [name |-> Undefined, symbol |-> Undefined, description |-> Undefined,
     imageUrl |-> Undefined, telegramLink |-> Undefined,
     twitterLink |-> Undefined, image_url |-> Undefined,
     telegram_link |-> Undefined, twitter_link |-> Undefined]

(* createToken *)

LAMPORTS_PER_SOL == 1000000000
\* config.creationFee = 0.01, as a fraction
CreationFee == [n |-> 1, d |-> 100]
RentBuffer(c) == IF c = "part_002" THEN 10000000 ELSE 1000000

\* this.config.creationFee * LAMPORTS_PER_SOL + buffer
RequiredBalance(c) ==
    (CreationFee.n * LAMPORTS_PER_SOL) \div CreationFee.d + RentBuffer(c)

Balances ==
    {0} \cup {RequiredBalance(c) - 1 : c \in Clients}
        \cup {RequiredBalance(c) : c \in Clients}

RpcFailure == "rpc failed"
RpcAnswers == {"ok", RpcFailure}

\* errors.join(", ")
RECURSIVE Join(_)
Join(errs) ==
    IF Len(errs) = 0 THEN <<>>
    ELSE IF Len(errs) = 1 THEN errs
    ELSE <<errs[1], ", ">> \o Join(Tail(errs))

\* feePaid is <<>> when the result has no such field
NoTxResult == [kind |-> "none", success |-> FALSE, error |-> <<>>,
               signature |-> "", feePaid |-> <<>>]
Failure(msg) == [kind |-> "resolved", success |-> FALSE, error |-> msg,
                 signature |-> "", feePaid |-> <<>>]
Success(sig, fee) == [kind |-> "resolved", success |-> TRUE, error |-> <<>>,
                      signature |-> sig, feePaid |-> <<fee>>]
Rejected(msg) == [kind |-> "rejected", success |-> FALSE, error |-> msg,
                  signature |-> "", feePaid |-> <<>>]

InsufficientBalance(c, b) ==
    Failure(<<"Insufficient balance. Required: ",
              ToString(RequiredBalance(c)), "/", ToString(LAMPORTS_PER_SOL),
              " SOL, Available: ", ToString(b), "/",
              ToString(LAMPORTS_PER_SOL), " SOL">>)

\* the catch branch of createToken
CreateFailed(msg) == Failure(<<"Failed to create token: ", msg>>)

GateSkipped(v) == TRUE

\* !validation.isValid is false: createToken goes on
GatePassed(v) == v.isValid

\* From the call to the balance query.
CreateToken ==
    /\ pc = "idle"
    /\ op' = "createToken"
    /\ validation' = validateTokenMetadata(client, metadata)
    /\ IF GatePassed(validation')
       THEN /\ pc' = "await_balance"
            /\ rpc' = Append(rpc, "getBalance")
            /\ UNCHANGED txResult
       ELSE /\ pc' = "done"
            /\ txResult' = Failure(Join(validation'.errors))
            /\ UNCHANGED rpc
    /\ UNCHANGED <<bundleVars, trackVars, appVars, quoteVars, client, metadata, balance>>

\* getBalance settles; on a rejection the call itself rejects (the query is
\* outside the try block).  With enough balance the class of
\* pumpfun-client.ts derives the two token accounts, which may throw, and
\* asks for a blockhash; the class of part_002 asks for the mint's rent.
BalanceSettles ==
    /\ pc = "await_balance"
    /\ \E a \in RpcAnswers : \E b \in Balances : \E ataThrows \in BOOLEAN :
        IF a # "ok"
        THEN /\ pc' = "done"
             /\ txResult' = Rejected(<<a>>)
             /\ UNCHANGED <<rpc, balance>>
        ELSE /\ balance' = b
             /\ IF b < RequiredBalance(client)
                THEN /\ pc' = "done"
                     /\ txResult' = InsufficientBalance(client, b)
                     /\ UNCHANGED rpc
                ELSE IF client = "part_002"
                THEN /\ pc' = "await_rent"
                     /\ rpc' = Append(rpc,
                                  "getMinimumBalanceForRentExemption")
                     /\ UNCHANGED txResult
                ELSE IF ataThrows
                THEN /\ pc' = "done"
                     /\ txResult' = CreateFailed("Owner is off curve")
                     /\ UNCHANGED rpc
                ELSE /\ pc' = "await_blockhash"
                     /\ rpc' = Append(rpc, "getLatestBlockhash")
                     /\ UNCHANGED txResult
    /\ UNCHANGED <<bundleVars, trackVars, appVars, quoteVars, op, client, metadata, validation>>

\* An awaited step inside the try block settles: on "ok" the next request
\* (if any) is made, otherwise the catch branch returns.
TrySettles(next, call) ==
    /\ \E a \in RpcAnswers :
        IF a # "ok"
        THEN /\ pc' = "done"
             /\ txResult' = CreateFailed(a)
             /\ UNCHANGED rpc
        ELSE IF next = "done"
        THEN /\ pc' = "done"
             /\ txResult' = Success("sig", CreationFee)
             /\ UNCHANGED rpc
        ELSE /\ pc' = next
             /\ rpc' = Append(rpc, call)
             /\ UNCHANGED txResult
    /\ UNCHANGED <<bundleVars, trackVars, appVars, quoteVars, op, client, metadata, validation,
                   balance>>

RentSettles ==
    /\ pc = "await_rent"
    /\ TrySettles("await_blockhash", "getLatestBlockhash")

BlockhashSettles ==
    /\ pc = "await_blockhash"
    /\ TrySettles("await_send", "sendAndConfirmTransaction")

\* The class of part_002 then sends a second transaction, the metadata's.
SendSettles ==
    /\ pc = "await_send"
    /\ IF client = "part_002"
       THEN TrySettles("await_metadata", "createV1.sendAndConfirm")
       ELSE TrySettles("done", "")

MetadataSettles ==
    /\ pc = "await_metadata"
    /\ TrySettles("done", "")

\* A direct call of validateTokenMetadata.
ValidateTokenMetadataCall ==
    /\ pc = "idle"
    /\ op' = "validateTokenMetadata"
    /\ validation' = validateTokenMetadata(client, metadata)
    /\ pc' = "done"
    /\ UNCHANGED <<bundleVars, trackVars, appVars, quoteVars, client, metadata, rpc, balance,
                   txResult>>

(* Bonding-curve quotes.  A JS number is kept as an exact fraction n/d with
   d >= 0 in lowest terms; d = 0 gives the values a division by zero
   produces: 1/0 is Infinity, -1/0 is -Infinity and 0/0 is NaN. *)

Abs(x) == IF x < 0 THEN -x ELSE x
Sign(x) == IF x < 0 THEN -1 ELSE IF x > 0 THEN 1 ELSE 0

RECURSIVE GCD(_, _)
GCD(a, b) == IF b = 0 THEN a ELSE GCD(b, a % b)

Norm(n, d) ==
    IF d = 0 THEN [n |-> Sign(n), d |-> 0]
    ELSE LET g == GCD(Abs(n), Abs(d))
         IN  [n |-> (Sign(d) * n) \div g, d |-> Abs(d) \div g]

Whole(x) == [n |-> x, d |-> 1]
Infinity == [n |-> 1, d |-> 0]
NaN == [n |-> 0, d |-> 0]
Finite(a) == a.d # 0

Neg(a) == [n |-> -a.n, d |-> a.d]
Mul(a, b) == Norm(a.n * b.n, a.d * b.d)
Div(a, b) ==
    IF b.n < 0 THEN Norm(-(a.n * b.d), a.d * (-b.n))
    ELSE Norm(a.n * b.d, a.d * b.n)
Add(a, b) ==
    IF a.d = 0 /\ b.d = 0 THEN (IF a.n = b.n THEN a ELSE NaN)
    ELSE IF a.d = 0 THEN a
    ELSE IF b.d = 0 THEN b
    ELSE LET g == GCD(a.d, b.d)
         IN  Norm(a.n * (b.d \div g) + b.n * (a.d \div g),
                  (a.d \div g) * b.d)
Sub(a, b) == Add(a, Neg(b))

\* a < b and a <= b as JS compares numbers (false when either is NaN)
Less(a, b) ==
    /\ a # NaN /\ b # NaN
    /\ IF a.d = 0 \/ b.d = 0
       THEN a # b /\ (a = Neg(Infinity) \/ b = Infinity)
       ELSE a.n * b.d < b.n * a.d
AtMost(a, b) == a # NaN /\ b # NaN /\ (a = b \/ Less(a, b))

\* config.tradingFee = 0.005
TradingFee == [n |-> 1, d |-> 200]

\* getBondingCurveData: the placeholder every token gets
StubCurve == [solReserve |-> Whole(1000), tokenReserve |-> Whole(1000000)]
getBondingCurveData == StubCurve

Curves ==
    {[solReserve |-> Whole(s), tokenReserve |-> Whole(t)] :
        s \in 1..MaxReserve, t \in 1..MaxReserve}

\* trade sizes: a half and the whole numbers up to MaxTrade
Amounts == {[n |-> 1, d |-> 2]} \cup {Whole(a) : a \in 1..MaxTrade}

(* calculateTokensForSol *)

BuyNewSolReserve(solAmount, bc) == Add(bc.solReserve, solAmount)
BuyNewTokenReserve(solAmount, bc) ==
    Div(Mul(bc.solReserve, bc.tokenReserve), BuyNewSolReserve(solAmount, bc))
TokensReceived(solAmount, bc) ==
    Sub(bc.tokenReserve, BuyNewTokenReserve(solAmount, bc))

TokensPlusFee(tokens, fee) == Add(tokens, fee)

\* return tokensReceived - fee
TokensAfterFee(tokens, fee) == Sub(tokens, fee)

calculateTokensForSol(solAmount, bc) ==
    LET tokensReceived == TokensReceived(solAmount, bc)
        fee == Mul(tokensReceived, TradingFee)
    IN  TokensAfterFee(tokensReceived, fee)

(* calculateSolForTokens *)

SellNewTokenReserve(tokenAmount, bc) == Sub(bc.tokenReserve, tokenAmount)
SellNewSolReserve(tokenAmount, bc) ==
    Div(Mul(bc.solReserve, bc.tokenReserve),
        SellNewTokenReserve(tokenAmount, bc))
SolNeeded(tokenAmount, bc) ==
    Sub(SellNewSolReserve(tokenAmount, bc), bc.solReserve)

SolPlusDoubleFee(sol, fee) == Add(sol, Add(fee, fee))

\* return solNeeded + fee
SolPlusFee(sol, fee) == Add(sol, fee)

calculateSolForTokens(tokenAmount, bc) ==
    LET solNeeded == SolNeeded(tokenAmount, bc)
        fee == Mul(solNeeded, TradingFee)
    IN  SolPlusFee(solNeeded, fee)

\* One call of a quote function as a caller sees it: the function named,
\* its argument, the number it returned and the error it threw (none: the
\* functions have no throw statement).
Quoted(fn, x, y) == [fn |-> fn, input |-> x, error |-> "", output |-> y]

QuoteTokensForSol ==
    /\ pc = "idle"
    /\ \E solIn \in Amounts :
        quotes' = <<Quoted("calculateTokensForSol", solIn,
                           calculateTokensForSol(solIn, curve))>>
    /\ op' = "calculateTokensForSol"
    /\ pc' = "done"
    /\ UNCHANGED <<bundleVars, trackVars, appVars, createVars, curve, request>>

QuoteSolForTokens ==
    /\ pc = "idle"
    /\ \E tokensIn \in Amounts :
        quotes' = <<Quoted("calculateSolForTokens", tokensIn,
                           calculateSolForTokens(tokensIn, curve))>>
    /\ op' = "calculateSolForTokens"
    /\ pc' = "done"
    /\ UNCHANGED <<bundleVars, trackVars, appVars, createVars, curve, request>>

\* The tokens a buy quote returned are quoted back on the same snapshot.
QuoteBack ==
    /\ pc = "done"
    /\ op = "calculateTokensForSol"
    /\ Len(quotes) = 1
    /\ quotes' = Append(quotes,
                        Quoted("calculateSolForTokens", quotes[1].output,
                               calculateSolForTokens(quotes[1].output, curve)))
    /\ UNCHANGED <<bundleVars, trackVars, appVars, createVars, op, pc, curve, request>>

(* sellTokens *)

\* token amounts of a SellRequest, in tokens: half the placeholder's
\* reserve, all of it, twice as much
SellAmounts == {Whole(500000), Whole(1000000), Whole(2000000)}
SellRequests ==
    {[tokenAddress |-> a, tokenAmounts |-> ta] :
        a \in {"mint", "not-base58"},
        ta \in {<<>>} \cup {<<x>> : x \in SellAmounts}
                \cup {<<x, y>> : x \in SellAmounts, y \in SellAmounts}}

\* new PublicKey(address) throws on a string that is no base58 key
PublicKeyThrows(a) == a = "not-base58"

\* totalSolReceived after the for loop
RECURSIVE TotalSolReceived(_, _)
TotalSolReceived(ta, bc) ==
    IF ta = <<>> THEN Whole(0)
    ELSE Add(calculateSolForTokens(ta[Len(ta)], bc),
             TotalSolReceived(SubSeq(ta, 1, Len(ta) - 1), bc))

NoRequest == [tokenAddress |-> "", tokenAmounts |-> <<>>]

SellFailed(msg) == Failure(<<"Failed to sell tokens: ", msg>>)

\* From the call to the blockhash request.
SellTokens ==
    /\ pc = "idle"
    /\ op' = "sellTokens"
    /\ \E req \in SellRequests :
        /\ request' = req
        /\ IF Len(req.tokenAmounts) = 0
           THEN /\ pc' = "done"
                /\ txResult' = Failure(<<"No token amounts provided">>)
                /\ UNCHANGED rpc
           ELSE IF PublicKeyThrows(req.tokenAddress)
           THEN /\ pc' = "done"
                /\ txResult' = SellFailed("Invalid public key input")
                /\ UNCHANGED rpc
           ELSE /\ pc' = "await_sell_blockhash"
                /\ rpc' = Append(rpc, "getLatestBlockhash")
                /\ UNCHANGED txResult
    /\ UNCHANGED <<bundleVars, trackVars, appVars, client, metadata, validation,
                   balance, curve, quotes>>

SellBlockhashSettles ==
    /\ pc = "await_sell_blockhash"
    /\ \E a \in RpcAnswers :
        txResult' =
            IF a # "ok" THEN SellFailed(a)
            ELSE Success("placeholder_signature",
                         Mul(TotalSolReceived(request.tokenAmounts,
                                              getBondingCurveData),
                             TradingFee))
    /\ pc' = "done"
    /\ UNCHANGED <<bundleVars, trackVars, appVars, op, client, metadata, validation,
                   rpc, balance, curve, quotes, request>>

(* buyTokens *)

\* SOL amounts of a BuyRequest
BuyAmounts == {Whole(1), Whole(2)}
BuyRequests ==
    {[tokenAddress |-> a, solAmounts |-> sa] :
        a \in {"mint", "not-base58"},
        sa \in {<<>>} \cup {<<x>> : x \in BuyAmounts}
                \cup {<<x, y>> : x \in BuyAmounts, y \in BuyAmounts}}

\* totalSolNeeded after the for loop
RECURSIVE TotalSolNeeded(_)
TotalSolNeeded(sa) ==
    IF sa = <<>> THEN Whole(0)
    ELSE Add(TotalSolNeeded(SubSeq(sa, 1, Len(sa) - 1)), sa[Len(sa)])

BuyFailed(msg) == Failure(<<"Failed to buy tokens: ", msg>>)

\* From the call to the blockhash request.
BuyTokens ==
    /\ pc = "idle"
    /\ op' = "buyTokens"
    /\ \E req \in BuyRequests :
        /\ request' = req
        /\ IF Len(req.solAmounts) = 0
           THEN /\ pc' = "done"
                /\ txResult' = Failure(<<"No SOL amounts provided">>)
                /\ UNCHANGED rpc
           ELSE IF PublicKeyThrows(req.tokenAddress)
           THEN /\ pc' = "done"
                /\ txResult' = BuyFailed("Invalid public key input")
                /\ UNCHANGED rpc
           ELSE /\ pc' = "await_buy_blockhash"
                /\ rpc' = Append(rpc, "getLatestBlockhash")
                /\ UNCHANGED txResult
    /\ UNCHANGED <<bundleVars, trackVars, appVars, client, metadata, validation,
                   balance, curve, quotes>>

BuyBlockhashSettles ==
    /\ pc = "await_buy_blockhash"
    /\ \E a \in RpcAnswers :
        txResult' =
            IF a # "ok" THEN BuyFailed(a)
            ELSE Success("placeholder_signature",
                         Mul(TotalSolNeeded(request.solAmounts), TradingFee))
    /\ pc' = "done"
    /\ UNCHANGED <<bundleVars, trackVars, appVars, op, client, metadata, validation,
                   rpc, balance, curve, quotes, request>>

\* a TokenMetadata that passes the check of either class
GoodMetadata ==
    [name |-> Uniform(1, "n"), symbol |-> Uniform(MaxSymbolLength, "S"),
     description |-> OkText, imageUrl |-> HttpsUrl, telegramLink |-> Link,
     twitterLink |-> Link, image_url |-> HttpsUrl, telegram_link |-> Link,
     twitter_link |-> Link]

----------------------------------------------------------------------------
(* Two calls of the server client in flight at once.  A call's locals
   (transactions, maxRetries, retries, lastError) are a record of calls; the
   client object holds only its axios instance and its configuration. *)

Callers == {1, 2}

ConcBatches == {<<>>, <<GoodBlob>>, <<GoodBlob, GoodBlob>>}
ConcBudgets == 0..MaxConcRetries
ConcResponses == {NetErr, Ok(RelayId, "pending"), Ok(RelayId, "success")}

NewCall ==
    [op |-> "", pc |-> "idle", txs |-> <<>>, maxRetries |-> 0, retries |-> 0,
     lastError |-> Undefined, attempts |-> 0, responses |-> <<>>,
     delays |-> <<>>, result |-> NoResult]

RetriesOfFirst(cs, c) == cs[1].retries

\* let retries = 0: a local of the call
RetriesOf(cs, c) == cs[c].retries

\* The catch branch of the retry loop, for a call whose retries is r.
CallFailed(cr, r, err) ==
    LET le == RetryRecordError(cr.lastError, err)
    IN  IF r + 1 < cr.maxRetries
        THEN [cr EXCEPT !.lastError = le, !.retries = r + 1,
                        !.pc = "backoff",
                        !.delays = Append(@, BackoffDelay(r + 1))]
        ELSE [cr EXCEPT !.lastError = le, !.retries = r + 1, !.pc = "done",
                        !.result = Thrown(RetryExhausted(cr.maxRetries, le))]

\* From the while test to the next suspension point, retries being r.
CallIteration(cr, r) ==
    IF r < cr.maxRetries
    THEN IF SubmitPrecheck(cr.txs) # NoError
         THEN CallFailed([cr EXCEPT !.attempts = @ + 1], r,
                         SubmitPrecheck(cr.txs))
         ELSE [cr EXCEPT !.attempts = @ + 1, !.pc = "await_post"]
    ELSE [cr EXCEPT !.pc = "done",
                    !.result = Thrown(RetryExhausted(cr.maxRetries,
                                                     cr.lastError))]

\* The request a call has just sent, if its step ended at the POST.
Sends(before, after, c) ==
    IF after.pc = "await_post" /\ before.pc # "await_post"
    THEN Append(wire, [caller |-> c, request |-> SubmitRequest(after.txs)])
    ELSE wire

ConcSubmitBundle(c) ==
    /\ calls[c].pc = "idle"
    /\ \E t \in ConcBatches :
        LET cr == [calls[c] EXCEPT !.op = "submitBundle", !.txs = t,
                                   !.attempts = 1]
            after == IF SubmitPrecheck(t) # NoError
                     THEN [cr EXCEPT !.pc = "done",
                                     !.result = Thrown(SubmitPrecheck(t))]
                     ELSE [cr EXCEPT !.pc = "await_post"]
        IN  /\ calls' = [calls EXCEPT ![c] = after]
            /\ wire' = Sends(calls[c], after, c)
    /\ UNCHANGED concFrame

ConcSubmitBundleWithRetry(c) ==
    /\ calls[c].pc = "idle"
    /\ \E t \in ConcBatches : \E m \in ConcBudgets :
        LET cr == [calls[c] EXCEPT !.op = "submitBundleWithRetry", !.txs = t,
                                   !.maxRetries = m]
            after == CallIteration(cr, 0)
        IN  /\ calls' = [calls EXCEPT ![c] = after]
            /\ wire' = Sends(calls[c], after, c)
    /\ UNCHANGED concFrame

\* The relay answers the request call c is waiting on.
ConcSettle(c) ==
    /\ calls[c].pc = "await_post"
    /\ \E r \in ConcResponses :
        LET cr == [calls[c] EXCEPT !.responses = Append(@, r)]
            after ==
              IF cr.op = "submitBundle"
              THEN [cr EXCEPT !.pc = "done",
                              !.result =
                                 IF r.kind = "ok"
                                 THEN Returned(r.bundle_id, r.status, <<>>,
                                               NoError)
                                 ELSE Thrown(SubmitFailure(r))]
              ELSE IF r.kind = "ok" /\ r.status = "success"
              THEN [cr EXCEPT !.pc = "done",
                              !.result = Returned(r.bundle_id, r.status,
                                                  <<>>, NoError)]
              ELSE CallFailed(cr, RetriesOf(calls, c),
                              IF r.kind = "ok" THEN <<r.status>>
                              ELSE SubmitFailure(r))
        IN  /\ calls' = [calls EXCEPT ![c] = after]
            /\ UNCHANGED wire
    /\ UNCHANGED concFrame

\* The backoff timer of call c fires.
ConcBackoffElapsed(c) ==
    /\ calls[c].pc = "backoff"
    /\ LET after == CallIteration(calls[c], RetriesOf(calls, c))
       IN  /\ calls' = [calls EXCEPT ![c] = after]
           /\ wire' = Sends(calls[c], after, c)
    /\ UNCHANGED concFrame

ConcSubmitBundleCall == \E c \in Callers : ConcSubmitBundle(c)
ConcSubmitBundleWithRetryCall ==
    \E c \in Callers : ConcSubmitBundleWithRetry(c)
ConcSettles == \E c \in Callers : ConcSettle(c)
ConcBackoffElapses == \E c \in Callers : ConcBackoffElapsed(c)

----------------------------------------------------------------------------

(* simple-bot.ts: the step-by-step flows of one user *)

Absent == "<undefined>"
BotTexts == {"MyMemeCoin", "MMC", "skip"}

EmptyProjectData ==
    [walletName |-> Absent, tokenName |-> Absent, tokenSymbol |-> Absent,
     tokenDescription |-> Absent, tokenImage |-> Absent]
NoBotSession ==
    [exists |-> FALSE, currentStep |-> "", projectData |-> EmptyProjectData,
     wallets |-> 0]
NewBotSession ==
    [exists |-> TRUE, currentStep |-> "main_menu",
     projectData |-> EmptyProjectData, wallets |-> 0]
NoDeploy ==
    [sent |-> FALSE, name |-> Absent, symbol |-> Absent,
     description |-> Absent, imageUrl |-> Absent]

\* bot.on('text') registered first: the wallet flow
WalletTextHandler(s, text) ==
    IF ~s.exists THEN s
    ELSE IF s.currentStep = "add_wallet_name"
    THEN [s EXCEPT !.projectData.walletName = text,
                   !.currentStep = "add_wallet_address"]
    ELSE IF s.currentStep = "add_wallet_address"
    THEN [s EXCEPT !.wallets = @ + 1, !.currentStep = "main_menu"]
    ELSE s

\* bot.on('text') registered second: the token creation steps
TokenTextHandler(s, text) ==
    IF ~s.exists THEN s
    ELSE IF s.currentStep = "create_token_name"
    THEN [s EXCEPT !.projectData.tokenName = text,
                   !.currentStep = "create_token_symbol"]
    ELSE IF s.currentStep = "create_token_symbol"
    THEN [s EXCEPT !.projectData.tokenSymbol = text,
                   !.currentStep = "create_token_description"]
    ELSE IF s.currentStep = "create_token_description"
    THEN [s EXCEPT !.projectData.tokenDescription = text,
                   !.currentStep = "create_token_image"]
    ELSE IF s.currentStep = "create_token_image"
    THEN [s EXCEPT !.projectData.tokenImage =
                       IF text = "skip" THEN "" ELSE text]
    ELSE s

\* the handlers of a text update, in the order of their registration
TextHandlers == <<"wallet", "token">>
RunHandler(h, s, text) ==
    IF h = "wallet" THEN WalletTextHandler(s, text)
    ELSE TokenTextHandler(s, text)
\* a handler hands the update on only by calling next(); none of them
\* takes that argument
CallsNext(h) == FALSE

RECURSIVE Dispatch(_, _, _)
Dispatch(i, s, text) ==
    IF i > Len(TextHandlers) THEN s
    ELSE LET after == RunHandler(TextHandlers[i], s, text)
         IN  IF CallsNext(TextHandlers[i]) THEN Dispatch(i + 1, after, text)
             ELSE after

BotStart ==
    /\ botSession' = NewBotSession
    /\ tokenFlow' = FALSE
    /\ UNCHANGED <<texts, deployed, uiFrame>>

AddWalletAction ==
    /\ botSession.wallets < MaxBotWallets
    /\ botSession' = IF botSession.exists
                     THEN [botSession EXCEPT !.currentStep = "add_wallet_name"]
                     ELSE botSession
    /\ tokenFlow' = FALSE
    /\ UNCHANGED <<texts, deployed, uiFrame>>

CreateTokenAction ==
    /\ botSession' = IF botSession.exists
                     THEN [botSession EXCEPT
                              !.currentStep = "create_token_name",
                              !.projectData = EmptyProjectData]
                     ELSE botSession
    /\ tokenFlow' = botSession.exists
    /\ texts' = <<>>
    /\ UNCHANGED <<deployed, uiFrame>>

MainMenuAction ==
    /\ botSession' = IF botSession.exists
                     THEN [botSession EXCEPT !.currentStep = "main_menu"]
                     ELSE botSession
    /\ tokenFlow' = FALSE
    /\ UNCHANGED <<texts, deployed, uiFrame>>

TextMessage ==
    /\ Len(texts) < MaxTexts
    /\ \E text \in BotTexts :
          /\ botSession' = Dispatch(1, botSession, text)
          /\ texts' = Append(texts, text)
    /\ UNCHANGED <<tokenFlow, deployed, uiFrame>>

DeployTokenAction ==
    /\ botSession.exists
    /\ deployed' = [sent |-> TRUE,
                    name |-> botSession.projectData.tokenName,
                    symbol |-> botSession.projectData.tokenSymbol,
                    description |-> botSession.projectData.tokenDescription,
                    imageUrl |-> botSession.projectData.tokenImage]
    /\ UNCHANGED <<botSession, texts, tokenFlow, uiFrame>>

----------------------------------------------------------------------------

(* UserManager: users and sessions by Telegram id *)

UserIds == {1, 2}
WalletIds == {1, 2}
SessionStates == {"idle", "waiting_for_wallet_name"}
DataValues == {Absent, "a"}

NoUser == [exists |-> FALSE, id |-> 0, wallets |-> <<>>, lastActive |-> 0]
NoSession == [exists |-> FALSE, state |-> "", data |-> Absent, timestamp |-> 0]
NoUmCall == [method |-> "", userId |-> 0, arg |-> 0]
UmCall(method, userId, arg) ==
    [method |-> method, userId |-> userId, arg |-> arg]
Session(state, t) ==
    [exists |-> TRUE, state |-> state, data |-> Absent, timestamp |-> t]

HasNoUser(us, id) == FALSE
HasUser(us, id) == us[id].exists

\* getOrCreateUser: the users map after the call
getOrCreateUser(us, id, t) ==
    IF HasUser(us, id)
    THEN [us EXCEPT ![id].lastActive = t]
    ELSE [us EXCEPT ![id] = [exists |-> TRUE, id |-> id, wallets |-> <<>>,
                             lastActive |-> t]]

\* updateUser stores the record under its own id
FirstKey(user) == 1
updateUserKey(user) == user.id
updateUser(us, user) == [us EXCEPT ![updateUserKey(user)] = user]

addWalletToUser(us, id, wallet) ==
    IF us[id].exists
    THEN updateUser(us, [us[id] EXCEPT !.wallets = Append(@, wallet)])
    ELSE us

removeWalletFromUser(us, id, walletId) ==
    IF us[id].exists
    THEN updateUser(us, [us[id] EXCEPT
             !.wallets = SelectSeq(@, LAMBDA w : w # walletId)])
    ELSE us

setUserSession(ss, id, session) == [ss EXCEPT ![id] = session]
clearUserSession(ss, id) == [ss EXCEPT ![id] = NoSession]
\* { ...session.data, ...data } for data of one key
Merge(old, data) == IF data = Absent THEN old ELSE data
updateSessionData(ss, id, data, t) ==
    IF ss[id].exists
    THEN setUserSession(ss, id, [ss[id] EXCEPT !.data = Merge(@, data),
                                               !.timestamp = t])
    ELSE ss

\* one call of a UserManager method, at a later time than the last
Tick ==
    /\ clock < MaxClock
    /\ clock' = clock + 1

UmGetOrCreateUser ==
    /\ Tick
    /\ \E id \in UserIds :
          /\ users' = getOrCreateUser(users, id, clock')
          /\ seen' = seen \cup {id}
          /\ umCall' = UmCall("getOrCreateUser", id, 0)
    /\ UNCHANGED <<sessions, umFrame>>

UmSetUserSession ==
    /\ Tick
    /\ \E id \in UserIds, state \in SessionStates :
          /\ sessions' = setUserSession(sessions, id, Session(state, clock'))
          /\ umCall' = UmCall("setUserSession", id, 0)
    /\ UNCHANGED <<users, seen, umFrame>>

UmClearUserSession ==
    /\ Tick
    /\ \E id \in UserIds :
          /\ sessions' = clearUserSession(sessions, id)
          /\ umCall' = UmCall("clearUserSession", id, 0)
    /\ UNCHANGED <<users, seen, umFrame>>

UmUpdateSessionData ==
    /\ Tick
    /\ \E id \in UserIds, data \in DataValues :
          /\ sessions' = updateSessionData(sessions, id, data, clock')
          /\ umCall' = UmCall("updateSessionData", id, 0)
    /\ UNCHANGED <<users, seen, umFrame>>

UmAddWalletToUser ==
    /\ Tick
    /\ \E id \in UserIds, w \in WalletIds :
          /\ users' = addWalletToUser(users, id, w)
          /\ umCall' = UmCall("addWalletToUser", id, w)
    /\ UNCHANGED <<sessions, seen, umFrame>>

UmRemoveWalletFromUser ==
    /\ Tick
    /\ \E id \in UserIds, w \in WalletIds :
          /\ users' = removeWalletFromUser(users, id, w)
          /\ umCall' = UmCall("removeWalletFromUser", id, w)
    /\ UNCHANGED <<sessions, seen, umFrame>>

----------------------------------------------------------------------------
(* index.ts, command-handler.ts, callback-handler.ts: the name prompts *)

\* the user whose updates are followed, and the updates handled at once
Chatter == 1
Slots == {1, 2}

NoUpdate ==
    [pc |-> "idle", flow |-> "", created |-> FALSE, added |-> FALSE,
     cleared |-> FALSE, replyFailed |-> FALSE, attempted |-> FALSE,
     noWallets |-> FALSE]

\* handleCreateWallet without a name, or the create_wallet callback
PromptWallet ==
    /\ Len(prompts) < MaxPrompts
    /\ users' = getOrCreateUser(users, Chatter, clock)
    /\ sessions' = setUserSession(sessions, Chatter,
                       Session("waiting_for_wallet_name", clock))
    /\ prompts' = Append(prompts, "wallet")
    /\ seen' = seen \cup {Chatter}
    /\ UNCHANGED <<clock, umCall, handlers, apiCalls, chatFrame>>

\* the create_token callback
PromptToken ==
    /\ Len(prompts) < MaxPrompts
    /\ users' = getOrCreateUser(users, Chatter, clock)
    /\ sessions' = setUserSession(sessions, Chatter,
                       Session("waiting_for_token_name", clock))
    /\ prompts' = Append(prompts, "token")
    /\ seen' = seen \cup {Chatter}
    /\ UNCHANGED <<clock, umCall, handlers, apiCalls, chatFrame>>

\* bot.on('text'): getOrCreateUser, then handleUnknownCommand
TextArrives(h) ==
    /\ handlers[h].pc = "idle"
    /\ users' = getOrCreateUser(users, Chatter, clock)
    /\ seen' = seen \cup {Chatter}
    /\ handlers' = [handlers EXCEPT ![h].pc = "get_session"]
    /\ UNCHANGED <<sessions, clock, umCall, prompts, apiCalls, chatFrame>>

\* handleUnknownCommand reads the session; handleSessionInput switches on it
FlowOf(session) ==
    IF ~session.exists \/ session.state = "idle" THEN "other"
    ELSE IF session.state = "waiting_for_wallet_name" THEN "wallet"
    ELSE IF session.state = "waiting_for_token_name" THEN "token"
    ELSE "other"
FirstReply(flow) ==
    IF flow = "wallet" THEN "cw_reply1"
    ELSE IF flow = "token" THEN "ct_reply1"
    ELSE "hint"

ReadSession(h) ==
    /\ handlers[h].pc = "get_session"
    /\ handlers' = [handlers EXCEPT
           ![h].flow = FlowOf(sessions[Chatter]),
           ![h].pc = FirstReply(FlowOf(sessions[Chatter]))]
    /\ UNCHANGED <<umVars, prompts, apiCalls, chatFrame>>

\* where a handler goes on when a ctx.reply it awaits is delivered, and
\* when it throws
ReplyPoints ==
    {"cw_reply1", "cw_reply2", "cw_catch", "ct_reply1", "ct_nowallet",
     "ct_reply_ok", "ct_reply_err", "ct_catch", "hint"}
OnDelivered(at) ==
    CASE at = "cw_reply1" -> "cw_create"
      [] at = "cw_reply2" -> "cw_clear"
      [] at = "ct_reply1" -> "ct_check"
      [] at = "ct_reply_ok" -> "ct_clear"
      [] at = "ct_reply_err" -> "ct_clear"
      [] OTHER -> "done"
OnThrown(at) ==
    CASE at = "cw_reply1" -> "cw_catch"
      [] at = "cw_reply2" -> "cw_catch"
      [] at = "ct_reply1" -> "ct_catch"
      [] at = "ct_nowallet" -> "ct_catch"
      [] at = "ct_reply_ok" -> "ct_reply_err"
      [] at = "ct_reply_err" -> "ct_catch"
      [] OTHER -> "done"

\* createTokenWithName between its first reply and its next await
ApiAlways(wallets, keypairOk) == "ct_api"
AfterCheck(wallets, keypairOk) ==
    IF Len(wallets) = 0 THEN "ct_nowallet"
    ELSE IF keypairOk THEN "ct_api"
    ELSE "ct_reply_err"

ReplySettles(h) ==
    /\ handlers[h].pc \in ReplyPoints
    /\ \E delivered \in BOOLEAN, keypairOk \in BOOLEAN :
          LET to == IF delivered THEN OnDelivered(handlers[h].pc)
                    ELSE OnThrown(handlers[h].pc)
              next == IF to = "ct_check"
                      THEN AfterCheck(users[Chatter].wallets, keypairOk)
                      ELSE to
          IN  /\ handlers' = [handlers EXCEPT
                     ![h].pc = next,
                     ![h].replyFailed = @ \/ ~delivered,
                     ![h].attempted = @ \/ next = "ct_api",
                     ![h].noWallets = @ \/ next = "ct_nowallet"]
              /\ apiCalls' = IF next = "ct_api"
                             THEN Append(apiCalls,
                                      [handler |-> h,
                                       wallets |-> Len(users[Chatter].wallets)])
                             ELSE apiCalls
    /\ UNCHANGED <<umVars, prompts, chatFrame>>

\* walletManager.createWallet settles
CreateWalletSettles(h) ==
    /\ handlers[h].pc = "cw_create"
    /\ \E ok \in BOOLEAN :
          handlers' = [handlers EXCEPT
              ![h].created = ok,
              ![h].pc = IF ok THEN "cw_add" ELSE "cw_catch"]
    /\ UNCHANGED <<umVars, prompts, apiCalls, chatFrame>>

\* userManager.addWalletToUser(user.id, wallet)
AddWalletSettles(h) ==
    /\ handlers[h].pc = "cw_add"
    /\ users' = addWalletToUser(users, Chatter, h)
    /\ handlers' = [handlers EXCEPT ![h].added = TRUE, ![h].pc = "cw_reply2"]
    /\ UNCHANGED <<sessions, clock, umCall, seen, prompts, apiCalls, chatFrame>>

\* userManager.clearUserSession(user.id) at the end of either flow
ClearSession(h) ==
    /\ handlers[h].pc \in {"cw_clear", "ct_clear"}
    /\ sessions' = clearUserSession(sessions, Chatter)
    /\ handlers' = [handlers EXCEPT ![h].cleared = TRUE, ![h].pc = "done"]
    /\ UNCHANGED <<users, clock, umCall, seen, prompts, apiCalls, chatFrame>>

\* rustApiClient.createToken settles
ApiSettles(h) ==
    /\ handlers[h].pc = "ct_api"
    /\ \E ok \in BOOLEAN :
          handlers' = [handlers EXCEPT
              ![h].pc = IF ok THEN "ct_reply_ok" ELSE "ct_reply_err"]
    /\ UNCHANGED <<umVars, prompts, apiCalls, chatFrame>>

TextArrival == \E h \in Slots : TextArrives(h)
SessionRead == \E h \in Slots : ReadSession(h)
ReplySettled == \E h \in Slots : ReplySettles(h)
CreateWalletSettled == \E h \in Slots : CreateWalletSettles(h)
AddWalletSettled == \E h \in Slots : AddWalletSettles(h)
SessionCleared == \E h \in Slots : ClearSession(h)
ApiSettled == \E h \in Slots : ApiSettles(h)

----------------------------------------------------------------------------
(* wallet-manager.ts: key formats and key storage *)

\* A secret key is one of a few; a key string is the text of a key in one
\* format, or text that is no key at all.
Keys == 1..MaxKeys
Ivs == 1..MaxIvs
KeyFormats == {"base58", "base64", "json"}
KeyText(format, k) == [format |-> format, key |-> k]
Garbage == KeyText("garbage", 0)
KeyInputs == {KeyText(f, k) : f \in KeyFormats, k \in Keys} \cup {Garbage}

NoBytes == [valid |-> FALSE, key |-> 0]
Bytes(k) == [valid |-> TRUE, key |-> k]
Throws == [threw |-> TRUE, bytes |-> NoBytes]
Gives(b) == [threw |-> FALSE, bytes |-> b]

\* bs58.decode: the text of a JSON array ("[", ",") and base64 text of 64
\* bytes (which ends in "==") hold characters outside the base58 alphabet
Bs58Decode(text) ==
    IF text.format = "base58" THEN Gives(Bytes(text.key)) ELSE Throws
Bs58Encode(k) == KeyText("base58", k)

\* Buffer.from(text, "base64") never throws; it skips what is not base64
BufferFromBase64Text(text) ==
    IF text.format = "base64" THEN Gives(Bytes(text.key)) ELSE Gives(NoBytes)

\* JSON.parse and Uint8Array.from for input that starts with "["
StartsWithBracket(text) == text.format = "json"
ParseArray(text) == Gives(Bytes(text.key))

\* importWallet: the secret key read from the input
ParseSecretKey(text) ==
    IF StartsWithBracket(text) THEN ParseArray(text)
    ELSE IF ~Bs58Decode(text).threw THEN Bs58Decode(text)
    ELSE BufferFromBase64Text(text)

\* Keypair.fromSecretKey
NoKeypair == [kind |-> "none", publicKey |-> 0]
KeypairThrown == [kind |-> "thrown", publicKey |-> 0]
FromSecretKey(b) ==
    IF b.valid THEN [kind |-> "ok", publicKey |-> b.key] ELSE KeypairThrown

\* encryptPrivateKey: iv:authTag:ciphertext, or base64 when the cipher throws
EncryptPrivateKey(text, iv, cryptoOk) ==
    IF cryptoOk
    THEN [parts |-> 3, iv |-> iv, authTag |-> <<iv, text>>, encrypted |-> text]
    ELSE [parts |-> 1, iv |-> 0, authTag |-> <<>>, encrypted |-> text]

\* decryptPrivateKey: the text, or a throw
NoText == [threw |-> TRUE, text |-> Garbage]
DecryptPrivateKey(enc, cryptoOk) ==
    IF enc.parts # 3 THEN [threw |-> FALSE, text |-> enc.encrypted]
    ELSE IF cryptoOk /\ enc.authTag = <<enc.iv, enc.encrypted>>
    THEN [threw |-> FALSE, text |-> enc.encrypted]
    ELSE NoText

NoWallet == [from |-> "", input |-> Garbage, publicKey |-> 0,
             encryptedPrivateKey |-> EncryptPrivateKey(Garbage, 0, FALSE)]
NoTrip == [done |-> FALSE, key |-> Garbage, threw |-> FALSE, back |-> Garbage]

\* importWallet(userId, name, privateKeyInput) returns a wallet or throws
ImportWallet ==
    /\ wmWallet = NoWallet
    /\ \E text \in KeyInputs, iv \in Ivs :
          LET keypair == FromSecretKey(ParseSecretKey(text).bytes)
          IN  /\ keypair.kind = "ok"
              /\ wmWallet' = [from |-> "importWallet",
                              input |-> text,
                              publicKey |-> keypair.publicKey,
                              encryptedPrivateKey |->
                                  EncryptPrivateKey(text, iv, wmCrypto)]
    /\ UNCHANGED <<wmCrypto, wmKeypair, wmTrip, walletFrame>>

\* createWallet(userId, name)
CreateWallet ==
    /\ wmWallet = NoWallet
    /\ \E k \in Keys, iv \in Ivs :
          wmWallet' = [from |-> "createWallet",
                       input |-> Bs58Encode(k),
                       publicKey |-> FromSecretKey(Bytes(k)).publicKey,
                       encryptedPrivateKey |->
                           EncryptPrivateKey(Bs58Encode(k), iv, wmCrypto)]
    /\ UNCHANGED <<wmCrypto, wmKeypair, wmTrip, walletFrame>>

\* getKeypairFromWallet(wallet)
GetKeypairFromWallet ==
    /\ wmWallet # NoWallet
    /\ wmKeypair = NoKeypair
    /\ LET privateKey == DecryptPrivateKey(wmWallet.encryptedPrivateKey,
                                           wmCrypto)
       IN  wmKeypair' =
               IF privateKey.threw \/ Bs58Decode(privateKey.text).threw
               THEN KeypairThrown
               ELSE FromSecretKey(Bs58Decode(privateKey.text).bytes)
    /\ UNCHANGED <<wmCrypto, wmWallet, wmTrip, walletFrame>>

\* decryptPrivateKey(encryptPrivateKey(k))
EncryptThenDecrypt ==
    /\ ~wmTrip.done
    /\ \E text \in KeyInputs, iv \in Ivs :
          LET out == DecryptPrivateKey(
                         EncryptPrivateKey(text, iv, wmCrypto), wmCrypto)
          IN  wmTrip' = [done |-> TRUE, key |-> text, threw |-> out.threw,
                         back |-> out.text]
    /\ UNCHANGED <<wmCrypto, wmWallet, wmKeypair, walletFrame>>

----------------------------------------------------------------------------
(* api-server.ts: the buy and sell endpoints *)

MaxWalletsPerBundle == 16

\* the length of a field of the body; a field the body lacks has none,
\* and reading .length of it throws a TypeError
NoLength == 0 - 1
Lengths == {NoLength} \cup 0..MaxAmounts
Endpoints == {"buy", "sell"}

NoApiRequest == [endpoint |-> "", amounts |-> NoLength, walletIds |-> NoLength]
NoApiResponse == [status |-> 0, success |-> FALSE, data |-> "", error |-> ""]
ApiResponse(status, success, data, error) ==
    [status |-> status, success |-> success, data |-> data, error |-> error]

LengthThrows(req) == req.amounts = NoLength \/ req.walletIds = NoLength
NeverTooMany(req) == FALSE
LengthMismatch(req) == req.amounts # req.walletIds
TooManyAmounts(req) == req.amounts > MaxWalletsPerBundle

\* what the client call may end with
ClientResults ==
    {[kind |-> "resolved", success |-> TRUE, error |-> ""],
     [kind |-> "resolved", success |-> FALSE, error |-> "Insufficient balance"],
     [kind |-> "resolved", success |-> FALSE, error |-> ""],
     [kind |-> "rejected", success |-> FALSE, error |-> "fetch failed"]}

\* buyTokens / sellTokens up to the awaited client call
ApiRequest ==
    /\ apiPc = "idle"
    /\ \E ep \in Endpoints, a \in Lengths, w \in Lengths :
          LET req == [endpoint |-> ep, amounts |-> a, walletIds |-> w]
              what == IF ep = "buy" THEN "buy" ELSE "sell"
          IN  /\ apiReq' = req
              /\ IF LengthThrows(req)
                 THEN /\ apiRes' = ApiResponse(500, FALSE, "null",
                                       "Failed to " \o what \o " tokens: TypeError")
                      /\ apiPc' = "done"
                      /\ UNCHANGED clientCalls
                 ELSE IF LengthMismatch(req)
                 THEN /\ apiRes' = ApiResponse(400, FALSE, "null",
                                       "Number of " \o
                                       (IF ep = "buy" THEN "SOL" ELSE "token")
                                       \o " amounts must match number of wallet IDs")
                      /\ apiPc' = "done"
                      /\ UNCHANGED clientCalls
                 ELSE IF TooManyAmounts(req)
                 THEN /\ apiRes' = ApiResponse(400, FALSE, "null",
                                       "Maximum 16 wallets allowed per bundle")
                      /\ apiPc' = "done"
                      /\ UNCHANGED clientCalls
                 ELSE /\ clientCalls' = Append(clientCalls, ep \o "Tokens")
                      /\ apiPc' = "await_client"
                      /\ UNCHANGED apiRes
    /\ UNCHANGED apiFrame

\* the client call settles and the endpoint answers
ApiClientSettles ==
    /\ apiPc = "await_client"
    /\ \E r \in ClientResults :
          apiRes' =
              IF r.kind = "rejected"
              THEN ApiResponse(500, FALSE, "null",
                       "Failed to " \o apiReq.endpoint \o " tokens: " \o r.error)
              ELSE IF r.success
              THEN ApiResponse(200, TRUE, "pending", "null")
              ELSE ApiResponse(400, FALSE, "null",
                       IF r.error = "" THEN "Unknown error" ELSE r.error)
    /\ apiPc' = "done"
    /\ UNCHANGED <<apiReq, clientCalls, apiFrame>>

----------------------------------------------------------------------------

\* No call has been made.
BundleIdle ==
    /\ op = ""
    /\ pc = "idle"
    /\ txs = <<>>
    /\ maxRetries = 0
    /\ retries = 0
    /\ lastError = Undefined
    /\ attempts = 0
    /\ requests = <<>>
    /\ responses = <<>>
    /\ delays = <<>>
    /\ result = NoResult
    /\ bundleId = ""
    /\ maxWaitTime = 0
    /\ now = 0
    /\ startTime = 0
    /\ polls = <<>>
    /\ tip = [account |-> "", amount |-> 0]
    /\ lastPoll = LoopPass(0)
    /\ relayStatus = "none"
    /\ reported = <<>>

AppIdle ==
    /\ calls = [c \in Callers |-> NewCall]
    /\ wire = <<>>
    /\ botSession = NoBotSession
    /\ texts = <<>>
    /\ tokenFlow = FALSE
    /\ deployed = NoDeploy
    /\ apiReq = NoApiRequest
    /\ apiPc = "idle"
    /\ apiRes = NoApiResponse
    /\ clientCalls = <<>>
    /\ users = [id \in UserIds |-> NoUser]
    /\ sessions = [id \in UserIds |-> NoSession]
    /\ clock = 0
    /\ umCall = NoUmCall
    /\ seen = {}
    /\ handlers = [h \in Slots |-> NoUpdate]
    /\ prompts = <<>>
    /\ apiCalls = <<>>
    /\ wmCrypto \in BOOLEAN
    /\ wmWallet = NoWallet
    /\ wmKeypair = NoKeypair
    /\ wmTrip = NoTrip

PumpIdle ==
    /\ AppIdle
    /\ validation = NoValidation
    /\ rpc = <<>>
    /\ balance = 0
    /\ txResult = NoTxResult
    /\ request = NoRequest
    /\ quotes = <<>>

Init ==
    /\ BundleIdle
    /\ client = "pumpfun-client"
    /\ metadata = NoMetadata
    /\ curve = getBondingCurveData
    /\ PumpIdle

\* A PumpFunClient of either class, about to be given a TokenMetadata.
PumpInit ==
    /\ BundleIdle
    /\ client \in Clients
    /\ metadata \in Metadatas
    /\ curve = getBondingCurveData
    /\ PumpIdle

\* A PumpFunClient and the reserves of some token.
QuoteInit ==
    /\ BundleIdle
    /\ client = "pumpfun-client"
    /\ metadata = NoMetadata
    /\ curve \in Curves
    /\ PumpIdle

Next ==
    \/ SubmitBundleCall
    \/ SubmitBundleSettle
    \/ SubmitBundleWithRetryCall
    \/ RetrySettle
    \/ BackoffElapsed
    \/ GetBundleStatusCall
    \/ GetBundleStatusSettle
    \/ BotSubmitBundleCall
    \/ BotSubmitBundleSettle
    \/ BotGetBundleStatusCall
    \/ BotGetBundleStatusSettle
    \/ WaitForBundleConfirmationCall
    \/ WaitSettle
    \/ WaitTimerFired

Spec == Init /\ [][Next]_vars

\* One call of waitForBundleConfirmation.  Every request settles (axios is
\* created with a timeout) and every timer fires.
WaitNext ==
    \/ WaitForBundleConfirmationCall
    \/ WaitSettle
    \/ WaitTimerFired

WaitSpec == Init /\ [][WaitNext]_vars /\ WF_vars(WaitNext)

\* One bundle submitted through the bot client and polled afterwards.
StatusNext ==
    \/ BotSubmitBundleCall
    \/ BotSubmitBundleSettle
    \/ TrackSubmitted
    \/ TrackPoll
    \/ RelayDecides

StatusSpec == Init /\ [][StatusNext]_vars

\* One call of validateTokenMetadata or createToken.
PumpNext ==
    \/ ValidateTokenMetadataCall
    \/ CreateToken
    \/ BalanceSettles
    \/ RentSettles
    \/ BlockhashSettles
    \/ SendSettles
    \/ MetadataSettles

PumpSpec == PumpInit /\ [][PumpNext]_vars

\* One call of a quote function (and, after a buy quote, the sell quote of
\* what it returned), or one call of sellTokens.
QuoteNext ==
    \/ QuoteTokensForSol
    \/ QuoteSolForTokens
    \/ QuoteBack
    \/ SellTokens
    \/ SellBlockhashSettles

QuoteSpec == QuoteInit /\ [][QuoteNext]_vars

\* A PumpFunClient of either class, given good or no metadata.
TradeInit ==
    /\ BundleIdle
    /\ client \in Clients
    /\ metadata \in {GoodMetadata, NoMetadata}
    /\ curve = getBondingCurveData
    /\ PumpIdle

\* One call of createToken, buyTokens or sellTokens.
TradeNext ==
    \/ CreateToken
    \/ BalanceSettles
    \/ RentSettles
    \/ BlockhashSettles
    \/ SendSettles
    \/ MetadataSettles
    \/ BuyTokens
    \/ BuyBlockhashSettles
    \/ SellTokens
    \/ SellBlockhashSettles

TradeSpec == TradeInit /\ [][TradeNext]_vars

\* Two calls of the server client, interleaved at their suspension points.
ConcNext ==
    \/ ConcSubmitBundleCall
    \/ ConcSubmitBundleWithRetryCall
    \/ ConcSettles
    \/ ConcBackoffElapses

ConcSpec == Init /\ [][ConcNext]_vars

\* The menus and text flows of simple-bot for one user.
BotNext ==
    \/ BotStart
    \/ AddWalletAction
    \/ CreateTokenAction
    \/ MainMenuAction
    \/ TextMessage
    \/ DeployTokenAction

BotSpec == Init /\ [][BotNext]_vars

\* One request to the buy or sell endpoint of ApiServer.
ApiNext ==
    \/ ApiRequest
    \/ ApiClientSettles

ApiSpec == Init /\ [][ApiNext]_vars

\* Any sequence of calls of the UserManager methods.
UsersNext ==
    \/ UmGetOrCreateUser
    \/ UmSetUserSession
    \/ UmClearUserSession
    \/ UmUpdateSessionData
    \/ UmAddWalletToUser
    \/ UmRemoveWalletFromUser

UsersSpec == Init /\ [][UsersNext]_vars

\* One user, prompted for names, and up to two text updates of that user
\* handled at once.
ChatNext ==
    \/ PromptWallet
    \/ PromptToken
    \/ TextArrival
    \/ SessionRead
    \/ ReplySettled
    \/ CreateWalletSettled
    \/ AddWalletSettled
    \/ SessionCleared
    \/ ApiSettled

ChatSpec == Init /\ [][ChatNext]_vars

\* A WalletManager: a wallet imported or created, then used for signing.
WalletNext ==
    \/ ImportWallet
    \/ CreateWallet
    \/ GetKeypairFromWallet
    \/ EncryptThenDecrypt

WalletSpec == Init /\ [][WalletNext]_vars

----------------------------------------------------------------------------
(* Properties of the server client's submitBundle and submitBundleWithRetry *)

Retry == op = "submitBundleWithRetry"
BadLength == Len(txs) = 0 \/ Len(txs) > 16
LengthErrors ==
    {<<"No transactions to bundle">>,
     <<"Maximum 16 transactions allowed per bundle">>}

\* The relay took the bundle: a 2xx answer that carries an identifier and a
\* status other than failed (submitBundle logs "Bundle submitted
\* successfully" for it).
RelayAccepted(r) ==
    r.kind = "ok" /\ r.bundle_id # "" /\ r.status \in {"pending", "success"}
RelayFailed(r) == r.kind # "ok" \/ r.status = "failed"

\* C1: submitBundle with a batch of 0 or of more than 16 transactions throws a
\* validation error and sends nothing; for every batch it sends at most one
\* request, and that request carries the whole batch.
C1_SubmitBundleLengthChecked ==
    op = "submitBundle" =>
        /\ Len(requests) <= 1
        /\ \A i \in 1..Len(requests) :
              requests[i].method = "POST" /\ requests[i].transactions = txs
        /\ BadLength =>
              /\ requests = <<>>
              /\ pc = "done"
              /\ result.kind = "thrown"
              /\ result.error \in LengthErrors
        /\ (~BadLength) => Len(requests) = 1

C1_Witness ==
    /\ op = "submitBundle"
    /\ Len(txs) = 17
    /\ pc = "done"
    /\ result = Thrown(<<"Maximum 16 transactions allowed per bundle">>)
    /\ requests = <<>>

\* C2: when the relay fails the first two submissions and accepts the third
\* with a pending bundle, submitBundleWithRetry returns that bundle after
\* exactly three submitBundle calls and delays of 2s and 4s.
C2_ThirdAttemptAcceptedIsReturned ==
    (/\ Retry
     /\ Len(responses) >= 3
     /\ RelayFailed(responses[1])
     /\ RelayFailed(responses[2])
     /\ responses[3] = Ok(RelayId, "pending"))
    => /\ pc = "done"
       /\ result.kind = "returned"
       /\ result.bundleId = RelayId
       /\ result.status = "pending"
       /\ attempts = 3
       /\ delays = <<2000, 4000>>

\* C3: for maxRetries >= 1 submitBundleWithRetry calls submitBundle at most
\* maxRetries times, ends by returning a bundle or throwing, and makes no
\* attempt after one the relay accepted.
C3_BoundedAndNoAttemptAfterSuccess ==
    (Retry /\ maxRetries >= 1) =>
        /\ attempts <= maxRetries
        /\ Len(requests) <= attempts
        /\ pc = "done" => result.kind \in {"returned", "thrown"}
        /\ \A i \in 1..Len(responses) :
              RelayAccepted(responses[i]) => attempts = i

\* The part of C3 that does not depend on what counts as a success: the
\* number of attempts never exceeds maxRetries and nothing follows the answer
\* the method returned.
RetryBounded ==
    Retry =>
        /\ attempts <= maxRetries
        /\ Len(requests) <= attempts
        /\ Len(delays) <= attempts
        /\ \A i \in 1..Len(responses) :
              (responses[i].kind = "ok" /\ responses[i].status = "success")
                  => (i = attempts /\ pc = "done" /\ result.kind = "returned")

\* What the last attempt failed with, read from the batch and the relay's
\* last answer.
LastFailureReason ==
    IF Len(txs) = 0 THEN <<"No transactions to bundle">>
    ELSE IF Len(txs) > 16
    THEN <<"Maximum 16 transactions allowed per bundle">>
    ELSE LET r == responses[Len(responses)]
         IN IF r.kind = "ok" THEN <<r.status>>
            ELSE <<"Bundle submission failed: ",
                   IF r.dataMessage # "" THEN r.dataMessage ELSE r.message>>

\* C4: when every one of the maxRetries attempts failed, the Error thrown
\* carries the failure reason of the last attempt, a thrown transport error
\* or a non-success answer alike.
C4_ExhaustedCarriesLastReason ==
    (Retry /\ maxRetries >= 1 /\ pc = "done" /\ result.kind = "thrown") =>
        /\ attempts = maxRetries
        /\ result.error =
              <<"Bundle submission failed after ", ToString(maxRetries),
                " retries. Last error: ">> \o LastFailureReason

C4_Witness ==
    /\ Retry
    /\ pc = "done"
    /\ result.kind = "thrown"
    /\ Len(responses) = 3
    /\ responses[1] = NetErr
    /\ responses[2] = Ok(RelayId, "failed")
    /\ responses[3] = HttpErr
    /\ result.error =
          <<"Bundle submission failed after ", "3", " retries. Last error: ",
            "Bundle submission failed: ", "bundle rejected">>

\* C5: a batch of 0 or of more than 16 transactions given to
\* submitBundleWithRetry reaches the caller as a validation error at once:
\* no request, no second attempt, no backoff delay.
C5_ValidationNotRetried ==
    (Retry /\ maxRetries >= 1 /\ BadLength) =>
        /\ requests = <<>>
        /\ attempts = 1
        /\ delays = <<>>
        /\ pc = "done"
        /\ result.kind = "thrown"

\* C6: the delay started after failed attempt n is 2^n seconds, a delay is
\* started after every failed attempt but the last one, and between the call
\* and its end the method is suspended only in a request or in such a delay.
C6_ExponentialBackoff ==
    Retry =>
        /\ \A n \in 1..Len(delays) : delays[n] = (2 ^ n) * 1000
        /\ pc \in {"await_post", "backoff", "done"}
        /\ pc = "backoff" => (Len(delays) = attempts /\ attempts < maxRetries)
        /\ pc = "await_post" => Len(delays) = attempts - 1
        /\ (pc = "done" /\ result.kind = "thrown" /\ maxRetries >= 1) =>
              (attempts = maxRetries /\ Len(delays) = maxRetries - 1)
        /\ (pc = "done" /\ result.kind = "returned") =>
              Len(delays) = attempts - 1

C6_Witness ==
    /\ Retry
    /\ pc = "done"
    /\ result.kind = "thrown"
    /\ attempts = 4
    /\ delays = <<2000, 4000, 8000>>

----------------------------------------------------------------------------
(* Properties of submitBundle and getBundleStatus of both clients *)

CapturedBotError(r) == <<IF r.dataError # "" THEN r.dataError ELSE r.message>>
CapturedServerError(r) == IF r.dataMessage # "" THEN r.dataMessage ELSE r.message

\* C7 as stated: submitBundle (of either client) does not throw on a
\* transport or relay error but returns a bundle with status failed and the
\* message; on success (the relay answers with a pending bundle) it returns
\* a pending bundle with the relay's id.
C7_SubmitBundleNeverThrows ==
    (op \in {"submitBundle", "bot.submitBundle"} /\ pc = "done"
        /\ Len(responses) = 1) =>
        LET r == responses[1]
        IN /\ r.kind # "ok" =>
                 /\ result.kind = "returned"
                 /\ result.status = "failed"
                 /\ result.error # NoError
           /\ (r.kind = "ok" /\ r.status = "pending") =>
                 /\ result.kind = "returned"
                 /\ result.status = "pending"
                 /\ result.bundleId = r.bundle_id

\* C7 amended: the bot client's submitBundle never throws: a transport or
\* relay error, or a transaction that does not serialize, gives a bundle with
\* status failed and the message, a success a pending bundle with the relay's
\* id and the serialized batch.  The server client's submitBundle throws
\* "Bundle submission failed: <message>" on a transport or relay error and
\* returns the relay's answer as it is on success.
C7_SubmitBundleOutcome ==
    /\ (op = "bot.submitBundle" /\ pc = "done") =>
          /\ result.kind = "returned"
          /\ IF Len(responses) = 0
             THEN /\ requests = <<>>
                  /\ result.status = "failed"
                  /\ result.bundleId = ""
                  /\ result.error # NoError
             ELSE LET r == responses[1]
                  IN IF r.kind = "ok"
                     THEN /\ result.status = "pending"
                          /\ result.bundleId = r.bundle_id
                          /\ result.transactions = requests[1].transactions
                          /\ result.error = NoError
                     ELSE /\ result.status = "failed"
                          /\ result.bundleId = ""
                          /\ result.error = CapturedBotError(r)
    /\ (op = "submitBundle" /\ pc = "done" /\ Len(responses) = 1) =>
          LET r == responses[1]
          IN IF r.kind = "ok"
             THEN /\ result.kind = "returned"
                  /\ result.status = r.status
                  /\ result.bundleId = r.bundle_id
             ELSE /\ result.kind = "thrown"
                  /\ result.error =
                        <<"Bundle submission failed: ", CapturedServerError(r)>>

C7_Witness ==
    /\ op = "bot.submitBundle"
    /\ pc = "done"
    /\ Len(txs) = 2
    /\ responses = <<HttpErr>>
    /\ result.kind = "returned"
    /\ result.status = "failed"
    /\ result.error = <<"bad request">>

\* C8 as stated: getBundleStatus (of either client) maps a network failure
\* to a result with status failed instead of throwing, and the polling loop
\* gets a status from every poll.
C8_GetBundleStatusNeverThrows ==
    /\ (op \in {"getBundleStatus", "bot.getBundleStatus"} /\ pc = "done"
          /\ responses[1].kind # "ok") =>
          (result.kind = "returned" /\ result.status = "failed")
    /\ op = "bot.waitForBundleConfirmation" => Len(polls) = Len(responses)

\* C8 amended: the bot client's getBundleStatus maps a network failure to a
\* result with status failed, the given id and the message, instead of
\* throwing, so waitForBundleConfirmation gets a status from every poll
\* (failed for a poll that did not get through); the server client's
\* getBundleStatus throws "Failed to get bundle status: <message>".
C8_GetBundleStatusOutcome ==
    /\ (op = "bot.getBundleStatus" /\ pc = "done") =>
          LET r == responses[1]
          IN /\ result.kind = "returned"
             /\ result.bundleId = bundleId
             /\ IF r.kind = "ok"
                THEN result.status = r.status
                ELSE /\ result.status = "failed"
                     /\ result.error = CapturedBotError(r)
    /\ op = "bot.waitForBundleConfirmation" =>
          /\ Len(polls) = Len(responses)
          /\ \A i \in 1..Len(polls) :
                polls[i] = IF responses[i].kind = "ok"
                           THEN responses[i].status ELSE "failed"
    /\ (op = "getBundleStatus" /\ pc = "done") =>
          LET r == responses[1]
          IN IF r.kind = "ok"
             THEN result.kind = "returned" /\ result.status = r.status
             ELSE /\ result.kind = "thrown"
                  /\ result.error =
                        <<"Failed to get bundle status: ",
                          CapturedServerError(r)>>

C8_Witness ==
    /\ op = "bot.getBundleStatus"
    /\ pc = "done"
    /\ responses = <<NetErr>>
    /\ result = Returned(bundleId, "failed", <<>>,
                         <<"timeout of 30000ms exceeded">>)

----------------------------------------------------------------------------
(* Properties of the bot client's waitForBundleConfirmation *)

Waiting == op = "bot.waitForBundleConfirmation"
TerminalStatuses == {"accepted", "rejected", "failed"}
TimeoutResult ==
    Returned(bundleId, "failed", <<>>, <<"Bundle confirmation timeout">>)

\* C9: waitForBundleConfirmation returns the first terminal status it gets
\* and polls no more; after any other status it waits 2s, and then polls
\* again if the deadline has not passed and gives up if it has.
C9_PollUntilTerminal ==
    Waiting =>
        /\ \A i \in 1..(Len(polls) - 1) : polls[i] \notin TerminalStatuses
        /\ Len(requests) <= Len(polls) + 1
        /\ (Len(polls) > 0 /\ polls[Len(polls)] \in TerminalStatuses) =>
              /\ pc = "done"
              /\ Len(requests) = Len(polls)
              /\ result.kind = "returned"
              /\ result.status = polls[Len(polls)]
              /\ result.bundleId = bundleId
              /\ Len(delays) = Len(polls) - 1
        /\ (Len(polls) > 0 /\ polls[Len(polls)] \notin TerminalStatuses) =>
              /\ pc \in {"sleep", "await_get", "done"}
              /\ pc = "sleep" => Len(delays) = Len(polls)
              /\ pc = "await_get" =>
                    /\ Len(requests) = Len(polls) + 1
                    /\ Len(delays) = Len(polls)
                    /\ now - startTime < maxWaitTime
              /\ pc = "done" =>
                    /\ Len(delays) = Len(polls)
                    /\ now - startTime >= maxWaitTime
                    /\ result = TimeoutResult
        /\ \A i \in 1..Len(delays) : delays[i] = 2000

C9_Witness ==
    /\ Waiting
    /\ pc = "done"
    /\ polls = <<"pending", "pending", "rejected">>
    /\ delays = <<2000, 2000>>
    /\ result.status = "rejected"

\* C10: waitForBundleConfirmation always comes to an end, and when the relay
\* never reported anything but pending it ends with the synthetic failed
\* result that carries the timeout error.
C10_WaitTerminates ==
    /\ <>(pc = "done")
    /\ []((Waiting /\ pc = "done"
            /\ \A i \in 1..Len(polls) : polls[i] = "pending")
          => result = TimeoutResult)

C10_Witness ==
    /\ Waiting
    /\ pc = "done"
    /\ Len(polls) >= 2
    /\ \A i \in 1..Len(polls) : polls[i] = "pending"
    /\ now - startTime >= maxWaitTime
    /\ result = TimeoutResult

----------------------------------------------------------------------------
(* Properties of the bot client's polling loop: how long it waits *)

AllPending == \A i \in 1..Len(polls) : polls[i] = "pending"
Elapsed == now - startTime
TimedOut == Waiting /\ pc = "done" /\ AllPending

\* C11 as stated: against a relay that never leaves pending,
\* waitForBundleConfirmation returns its timeout result no earlier than
\* maxWaitTime and no later than maxWaitTime plus one poll interval after
\* the call, here even when the last timer fires exactly on time.
C11_TimeoutWithinOneInterval ==
    (TimedOut /\ lastPoll.late = 0) =>
        /\ result = TimeoutResult
        /\ Elapsed >= maxWaitTime
        /\ Elapsed <= maxWaitTime + PollInterval

\* C11 amended: the timeout result comes no earlier than maxWaitTime; the
\* last status request was sent before maxWaitTime had passed, and the call
\* returns one poll interval, plus the time that request took, plus the
\* lateness of the timer, after that request was sent.
C11_TimeoutAfterLastPass ==
    TimedOut =>
        /\ result = TimeoutResult
        /\ Elapsed >= maxWaitTime
        /\ polls = <<>> => Elapsed = 0
        /\ polls # <<>> =>
               /\ lastPoll.at - startTime < maxWaitTime
               /\ now = lastPoll.at + lastPoll.took + PollInterval
                         + lastPoll.late
               /\ Elapsed < maxWaitTime + PollInterval + lastPoll.took
                              + lastPoll.late

C11_Witness ==
    /\ TimedOut
    /\ Len(polls) >= 2
    /\ lastPoll.took > 0
    /\ Elapsed > maxWaitTime + PollInterval

----------------------------------------------------------------------------
(* Properties of the statuses the bot client reports for one bundle *)

\* C12: the status the client reports for a bundle is always one of pending,
\* accepted, rejected, failed, and once it has reported a terminal status
\* (a failed submission included) it never reports pending or another
\* terminal status for that bundle.
C12_StatusStateMachine ==
    /\ \A i \in 1..Len(reported) : reported[i] \in BundleStatuses
    /\ \A i \in 1..Len(reported) : \A j \in i..Len(reported) :
           reported[i] \in TerminalStatuses => reported[j] = reported[i]

----------------------------------------------------------------------------
(* Properties of the server client's base64 check *)

ValidBase64(tx) ==
    /\ Len(tx) % 4 = 0
    /\ \A i \in 1..Len(tx) : tx[i] \in Base64Alphabet

\* C13: submitBundle rejects a batch (of 1 to 16 blobs) holding a blob that
\* is not valid base64: it throws a validation error naming the index of the
\* first such blob and sends nothing to the relay.
C13_InvalidBase64Rejected ==
    (/\ op = "submitBundle"
     /\ ~BadLength
     /\ \E i \in 1..Len(txs) : ~ValidBase64(txs[i]))
    => /\ pc = "done"
       /\ requests = <<>>
       /\ result.kind = "thrown"
       /\ \E i \in 1..Len(txs) :
              /\ ~ValidBase64(txs[i])
              /\ result.error[1] = "Invalid base64 transaction at index "
              /\ result.error[2] = ToString(i - 1)

----------------------------------------------------------------------------
(* Properties of validateTokenMetadata *)

Validated == op = "validateTokenMetadata" /\ pc = "done"

\* the metadata of the spec's example: an empty name, a symbol of 13
\* characters, a good description, an image that is no URL, and no links
ExampleMetadata ==
    /\ metadata.name = <<>>
    /\ metadata.symbol = TooLongSymbol
    /\ metadata.description = OkText
    /\ metadata.imageUrl = NotAUrl
    /\ metadata.telegramLink = Undefined
    /\ metadata.twitterLink = Undefined
    /\ metadata.image_url = Undefined

ExampleErrors ==
    <<"Token name must be 1-32 characters",
      "Token symbol must be 1-8 characters",
      "Invalid image URL",
      "Telegram link is required",
      "Twitter link is required">>

Given(s) == s # Undefined
LengthWithin(s, max) == Given(s) /\ Len(s) >= 1 /\ Len(s) <= max
RulesHold ==
    /\ LengthWithin(metadata.name, 32)
    /\ LengthWithin(metadata.symbol, 8)
    /\ LengthWithin(metadata.description, 200)
    /\ UrlParses(metadata.imageUrl)
    /\ Given(metadata.telegramLink) /\ Len(metadata.telegramLink) > 0
    /\ Given(metadata.twitterLink) /\ Len(metadata.twitterLink) > 0

----------------------------------------------------------------------------
(* Properties of createToken *)

Creating == op = "createToken"
MetadataValid == validateTokenMetadata(client, metadata).isValid
SendCalls == {"sendAndConfirmTransaction", "createV1.sendAndConfirm"}
Sent(i) == i \in 1..Len(rpc) /\ rpc[i] \in SendCalls

\* C16: createToken (of either class) given invalid metadata returns a
\* failure result listing the validation errors and makes no call on the
\* connection at all; a transaction is sent only when the metadata is valid
\* and the balance read before it was at least the required balance.
C16_CreateTokenGated ==
    Creating =>
        /\ ~MetadataValid =>
               /\ pc = "done"
               /\ rpc = <<>>
               /\ txResult.kind = "resolved"
               /\ ~txResult.success
               /\ txResult.error # <<>>
               /\ txResult.error =
                      Join(validateTokenMetadata(client, metadata).errors)
        /\ \A i \in 1..Len(rpc) :
               Sent(i) =>
                   /\ MetadataValid
                   /\ rpc[1] = "getBalance"
                   /\ i > 1
                   /\ balance >= RequiredBalance(client)

C16_Witness ==
    /\ Creating
    /\ pc = "done"
    /\ txResult.success
    /\ \E i \in 1..Len(rpc) : Sent(i)
    /\ balance = RequiredBalance(client)

----------------------------------------------------------------------------
(* Properties of the bonding-curve quotes *)

Zero == Whole(0)
One == Whole(1)
IsBuy(q) == q.fn = "calculateTokensForSol"
IsSell(q) == q.fn = "calculateSolForTokens"
ConstantProduct == Mul(curve.solReserve, curve.tokenReserve)
ExhaustsReserve(tokensIn, bc) == AtMost(bc.tokenReserve, tokensIn)

\* C17: calculateSolForTokens given tokensIn >= tokenReserve fails with an
\* InsufficientLiquidity error, it returns no negative or infinite amount;
\* and sellTokens given such an amount does not report success.
C17_SellBeyondReserveFails ==
    /\ \A i \in 1..Len(quotes) :
           (IsSell(quotes[i]) /\ ExhaustsReserve(quotes[i].input, curve))
               => quotes[i].error = "InsufficientLiquidity"
    /\ (/\ op = "sellTokens"
        /\ pc = "done"
        /\ \E j \in 1..Len(request.tokenAmounts) :
               ExhaustsReserve(request.tokenAmounts[j], getBondingCurveData))
       => ~txResult.success

\* rawTokens = tokenReserve - k / (solReserve + solIn)
RawTokens(solIn) ==
    Sub(curve.tokenReserve,
        Div(ConstantProduct, Add(curve.solReserve, solIn)))

RoundTrip == Len(quotes) = 2 /\ IsBuy(quotes[1]) /\ IsSell(quotes[2])

NewSolReserve(q) ==
    IF IsBuy(q) THEN BuyNewSolReserve(q.input, curve)
    ELSE SellNewSolReserve(q.input, curve)
NewTokenReserve(q) ==
    IF IsBuy(q) THEN BuyNewTokenReserve(q.input, curve)
    ELSE SellNewTokenReserve(q.input, curve)

\* C20: in every quote either function returns, the new reserves it
\* computes multiply to solReserve * tokenReserve and neither is negative.
\* (The quote functions assign nothing to the BondingCurveData they are
\* given: every action leaves curve unchanged.)
C20_ProductConservedReservesNonNegative ==
    \A i \in 1..Len(quotes) :
        quotes[i].error = "" =>
            /\ Mul(NewSolReserve(quotes[i]), NewTokenReserve(quotes[i]))
                  = ConstantProduct
            /\ AtMost(Zero, NewSolReserve(quotes[i]))
            /\ AtMost(Zero, NewTokenReserve(quotes[i]))

----------------------------------------------------------------------------
(* Properties of the results of createToken, buyTokens and sellTokens *)

Trading == op \in {"createToken", "buyTokens", "sellTokens"}

\* C21: every call of createToken, buyTokens or sellTokens that has ended
\* resolved to a TransactionResult, and a result with success false
\* carries an error message: no call ends by rejecting.
C21_AlwaysResolves ==
    (Trading /\ pc = "done") =>
        /\ txResult.kind = "resolved"
        /\ ~txResult.success => txResult.error # <<>>

----------------------------------------------------------------------------
(* Properties of two interleaved calls of the server client *)

Own(c) == SelectSeq(wire, LAMBDA w : w.caller = c)
Accepted(r) == r.kind = "ok" /\ r.status = "success"
FailedResponses(cr) ==
    Cardinality({i \in 1..Len(cr.responses) : ~Accepted(cr.responses[i])})
ReasonOf(r) == IF r.kind = "ok" THEN <<r.status>> ELSE SubmitFailure(r)

\* what a call that has ended must have ended with, from its own
\* arguments and the answers to its own requests alone
ExpectedResult(cr) ==
    LET n == Len(cr.responses)
    IN  IF cr.op = "submitBundle"
        THEN IF n = 0 THEN Thrown(SubmitPrecheck(cr.txs))
             ELSE IF cr.responses[1].kind = "ok"
             THEN Returned(cr.responses[1].bundle_id, cr.responses[1].status,
                           <<>>, NoError)
             ELSE Thrown(SubmitFailure(cr.responses[1]))
        ELSE IF n > 0 /\ Accepted(cr.responses[n])
        THEN Returned(cr.responses[n].bundle_id, "success", <<>>, NoError)
        ELSE Thrown(RetryExhausted(cr.maxRetries,
                 IF cr.maxRetries = 0 THEN Undefined
                 ELSE IF n = 0 THEN SubmitPrecheck(cr.txs)
                 ELSE ReasonOf(cr.responses[n])))

\* C22: of two interleaved calls, each sends its own requests, with its
\* own transactions and the fixed tip, one per attempt; its retry count and
\* its result follow from the answers to its own requests alone; and two
\* calls given the same batch each send it (nothing is deduplicated).
C22_CallsIndependent ==
    /\ \A c \in Callers :
           LET cr == calls[c]
           IN  /\ \A i \in 1..Len(Own(c)) :
                      Own(c)[i].request = SubmitRequest(cr.txs)
               /\ Len(Own(c)) = Len(cr.responses)
                                   + (IF cr.pc = "await_post" THEN 1 ELSE 0)
               /\ cr.op = "submitBundleWithRetry" =>
                      cr.retries = IF SubmitPrecheck(cr.txs) # NoError
                                   THEN cr.attempts
                                   ELSE FailedResponses(cr)
               /\ cr.pc = "done" => cr.result = ExpectedResult(cr)
    /\ (/\ calls[1].txs = calls[2].txs
        /\ \A c \in Callers :
               calls[c].attempts > 0 /\ SubmitPrecheck(calls[c].txs) = NoError)
       => Len(Own(1)) >= 1 /\ Len(Own(2)) >= 1 /\ Len(wire) >= 2

C22_Witness ==
    /\ \A c \in Callers :
           calls[c].pc = "done" /\ calls[c].op = "submitBundleWithRetry"
    /\ calls[1].txs = <<GoodBlob>>
    /\ calls[2].txs = <<GoodBlob>>
    /\ calls[1].result.kind = "returned"
    /\ calls[2].result.kind = "thrown"
    /\ Len(wire) = 4
    /\ wire[1].caller = 1 /\ wire[2].caller = 2
    /\ wire[3].caller = 1 /\ wire[4].caller = 2

----------------------------------------------------------------------------
(* Properties of the simple-bot token creation flow *)

TokenSteps ==
    <<"create_token_name", "create_token_symbol", "create_token_description",
      "create_token_image", "create_token_image">>
Recorded(k, field) ==
    k <= Len(texts) => botSession.projectData[field] = texts[k]

\* C23: after create_token, the k-th text message (k = 1..4) moves
\* currentStep one step along name, symbol, description, image and is
\* recorded as tokenName, tokenSymbol, tokenDescription, tokenImage, and
\* deploy_token sends those four fields.
C23_TokenStepsAdvance ==
    (tokenFlow /\ Len(texts) <= MaxTexts) =>
        /\ botSession.currentStep = TokenSteps[Len(texts) + 1]
        /\ Recorded(1, "tokenName")
        /\ Recorded(2, "tokenSymbol")
        /\ Recorded(3, "tokenDescription")
        /\ Len(texts) >= 4 =>
               botSession.projectData.tokenImage =
                   IF texts[4] = "skip" THEN "" ELSE texts[4]
        /\ (deployed.sent /\ Len(texts) >= 4) =>
               /\ deployed.name = texts[1]
               /\ deployed.symbol = texts[2]
               /\ deployed.description = texts[3]

----------------------------------------------------------------------------
(* Properties of the buy and sell endpoints *)

Received == apiPc # "idle"
CountsGiven == apiReq.amounts # NoLength /\ apiReq.walletIds # NoLength

\* C24: a buy or sell request whose number of amounts differs from its
\* number of wallet ids, or which has more than 16 amounts, is answered 400
\* with success=false without the client being invoked; and status pending
\* is answered only after a client call that reported success.
C24_RejectedBeforeClient ==
    /\ (/\ Received
        /\ CountsGiven
        /\ apiReq.amounts # apiReq.walletIds \/ apiReq.amounts > 16)
       => /\ apiPc = "done"
          /\ apiRes.status = 400
          /\ ~apiRes.success
          /\ clientCalls = <<>>
    /\ apiRes.data = "pending"
       => /\ clientCalls = <<apiReq.endpoint \o "Tokens">>
          /\ apiRes.success
          /\ apiRes.status = 200

C24_Witness ==
    /\ apiPc = "done"
    /\ apiReq.endpoint = "sell"
    /\ apiReq.amounts = 17
    /\ apiReq.walletIds = 17
    /\ apiRes.status = 400
    /\ clientCalls = <<>>

----------------------------------------------------------------------------
(* Properties of the name prompts *)

Alone(h) == \A g \in Slots \ {h} : handlers[g].pc = "idle"
Occurrences(wallets, w) ==
    Cardinality({i \in 1..Len(wallets) : wallets[i] = w})

\* C25: after one wallet prompt, a text message handled on its own is
\* taken as the wallet name and ends, when createWallet
\* succeeded, with exactly one wallet appended and the session cleared, and
\* otherwise with no wallet added and the session left as it was.
C25_WalletNameSession ==
    \A h \in Slots :
        (/\ prompts = <<"wallet">>
         /\ handlers[h].flow = "wallet"
         /\ handlers[h].pc = "done"
         /\ Alone(h)) =>
            IF handlers[h].created
            THEN /\ Occurrences(users[Chatter].wallets, h) = 1
                 /\ handlers[h].cleared
                 /\ ~sessions[Chatter].exists
            ELSE /\ Occurrences(users[Chatter].wallets, h) = 0
                 /\ ~handlers[h].cleared
                 /\ sessions[Chatter].state = "waiting_for_wallet_name"

WalletPrompts == Cardinality({i \in 1..Len(prompts) : prompts[i] = "wallet"})
AllDelivered == \A h \in Slots : ~handlers[h].replyFailed

\* C26: with every reply delivered, text messages handled at the same time
\* add at most one wallet for each wallet prompt the user was given.
C26_OneWalletPerPrompt ==
    AllDelivered => Len(users[Chatter].wallets) <= WalletPrompts

\* C28: a text message taken as the token name ends with the session
\* cleared by its handler whenever the token-creation API was called, ends
\* without clearing it and without an API call when the user has no wallets,
\* and the API is never called for a user without wallets.
C28_TokenNameSession ==
    /\ \A h \in Slots :
           (handlers[h].flow = "token" /\ handlers[h].pc = "done") =>
               /\ handlers[h].attempted => handlers[h].cleared
               /\ handlers[h].noWallets =>
                      ~handlers[h].cleared /\ ~handlers[h].attempted
    /\ \A i \in 1..Len(apiCalls) : apiCalls[i].wallets > 0

----------------------------------------------------------------------------
(* Properties of the WalletManager *)

\* C27: getKeypairFromWallet on a wallet that importWallet or createWallet
\* returned gives a keypair with the wallet's public key, and decrypting
\* the encryption of a key string gives the string back.
C27_WalletsCanSign ==
    /\ wmKeypair # NoKeypair =>
           /\ wmKeypair.kind = "ok"
           /\ wmKeypair.publicKey = wmWallet.publicKey
    /\ wmTrip.done => ~wmTrip.threw /\ wmTrip.back = wmTrip.key

----------------------------------------------------------------------------
(* Properties of the UserManager *)

SessionMethods == {"setUserSession", "clearUserSession", "updateSessionData"}
WalletMethods == {"addWalletToUser", "removeWalletFromUser"}
Without(wallets, walletId) == SelectSeq(wallets, LAMBDA w : w # walletId)

\* what one call for user a may change
IsolatedStep(a, method, arg) ==
    /\ \A b \in UserIds \ {a} :
           sessions'[b] = sessions[b] /\ users'[b] = users[b]
    /\ (method = "updateSessionData" /\ ~sessions[a].exists) =>
           sessions' = sessions /\ users' = users
    /\ (method \in WalletMethods /\ ~users[a].exists) =>
           sessions' = sessions /\ users' = users
    /\ (method = "removeWalletFromUser" /\ users[a].exists) =>
           users'[a].wallets = Without(users[a].wallets, arg)

\* C29: a session or wallet method called for user A leaves the session
\* and the record of every other user as they were, does nothing when A has
\* no session (updateSessionData) or no record (addWalletToUser,
\* removeWalletFromUser), and removeWalletFromUser removes exactly the
\* wallets with the given id.
C29_IsolatedPerUser ==
    [][umCall'.method \in SessionMethods \cup WalletMethods =>
           IsolatedStep(umCall'.userId, umCall'.method, umCall'.arg)]_vars

C29_Witness ==
    /\ umCall = UmCall("removeWalletFromUser", 1, 1)
    /\ users[1].wallets = <<2>>
    /\ clock = 4

UserCount(us) == Cardinality({id \in UserIds : us[id].exists})

\* C30: getOrCreateUser keeps one record for each id it has seen: the
\* number of records is the number of distinct ids, a new record has no
\* wallets, and a call for a known id changes nothing of the record but
\* lastActive.
C30_OneRecordPerId ==
    [][umCall'.method = "getOrCreateUser" =>
           LET id == umCall'.userId
           IN  /\ UserCount(users') = Cardinality(seen')
               /\ users'[id].exists /\ users'[id].id = id
               /\ IF users[id].exists
                  THEN users' = [users EXCEPT ![id].lastActive = clock']
                  ELSE /\ users'[id].wallets = <<>>
                       /\ \A other \in UserIds \ {id} :
                              users'[other] = users[other]]_vars

C30_Witness ==
    /\ umCall = UmCall("getOrCreateUser", 1, 0)
    /\ users[1].wallets = <<1>>
    /\ users[1].lastActive = 4
    /\ users[2].exists
    /\ UserCount(users) = 2

====
